---------------------------- MODULE Spec2Model ----------------------------
(***************************************************************************)
(* A model of components/site/src/lib.rs (the Site orchestrator of zola):  *)
(* the output materialization layer (write_content), the sitemap and the   *)
(* paginator writers, load() and the serve-mode single document rebuilds,  *)
(* and build().                                                            *)
(*                                                                         *)
(* Strings are atomic values here.  A path is a sequence of component      *)
(* names; a content is a record.  The collaborators (templates, markdown,  *)
(* link checker, sass, image processing) are nondeterministic: each call   *)
(* either succeeds or returns an error.                                    *)
(***************************************************************************)
EXTENDS Integers, Sequences, FiniteSets, TLC

(***************************************************************************)
(* Bounds of the model.                                                    *)
(***************************************************************************)
\* number of write_content calls a SpecWrite behaviour makes
MaxWrites == 2
\* the sitemap entry counts tried reach MaxFullChunks * sitemap_limit + 1
MaxFullChunks == 2
\* the largest number of pagers of a paginator
MaxPagers == 3
\* the number of operations (build, add_and_render_page,
\* add_and_render_section) run on a loaded Site
MaxOps == 1

VARIABLES
    build_mode,     \* Site.build_mode: "Disk" or "Memory"
    config,         \* Site.config: the fields the orchestrator reads
    fs,             \* the output directory: [dirs, files]
    site_content,   \* SITE_CONTENT: the in-memory rendered map
    pc,             \* position of the running operation
    loc,            \* arguments and local variables of the running operation
    result,         \* the Result the last operation returned
    nops,           \* number of operations started so far
    library,        \* Site.library: [pages, sections], each keyed by source path
    permalinks,     \* Site.permalinks: relative source path -> permalink
    taxonomies,     \* Site.taxonomies
    include_drafts, \* Site.include_drafts
    tree,           \* the content directory: source path -> what parsing it gives
    trace           \* the steps the running operation has run, with their outcomes

vars == <<build_mode, config, fs, site_content, pc, loc, result, nops,
          library, permalinks, taxonomies, include_drafts, tree, trace>>

\* the Site fields and the content directory, which the writers leave alone
siteVars == <<library, permalinks, taxonomies, include_drafts, tree, trace>>

(***************************************************************************)
(* Values.                                                                 *)
(***************************************************************************)
BuildModes == {"Disk", "Memory"}

NoResult == [ok |-> TRUE, err |-> "pending", detail |-> {}]
Ok == [ok |-> TRUE, err |-> "", detail |-> {}]
Err(e) == [ok |-> FALSE, err |-> e, detail |-> {}]

EmptyMap == [x \in {} |-> 0]
EmptyFs == [dirs |-> {}, files |-> EmptyMap]
EmptyLibrary == [pages |-> EmptyMap, sections |-> EmptyMap]

\* Site::new: no document, no permalink, no taxonomy, drafts left out
NoSite ==
    /\ library = EmptyLibrary
    /\ permalinks = EmptyMap
    /\ taxonomies = << >>
    /\ include_drafts = FALSE
    /\ tree = EmptyMap
    /\ trace = << >>

\* f with key k bound to v (HashMap::insert, a file created or truncated)
Upsert(f, k, v) == (k :> v) @@ f

(***************************************************************************)
(* write_content                                                           *)
(***************************************************************************)
\* str::ends_with("html") on the file names the orchestrator uses
EndsWithHtml(filename) == filename \in {"index.html", "404.html", "old.html"}

\* a minifier that accepts any markup
MinifyNeverFails(content) == FALSE

\* minify_html::with_friendly_error: fails on malformed markup
MinifyFails(content) == content.body = "bad_html"

\* Site::minify on markup that is well formed
Minified(content) == [content EXCEPT !.min = TRUE]

\* PathBuf::push of an empty component adds no component to the OS path
OsPath(components) == SelectSeq(components, LAMBDA c : c # "")

\* a path and all its ancestors (create_dir_all)
Prefixes(p) == {SubSeq(p, 1, k) : k \in 0..Len(p)}

\* url::Url::path(): the characters outside the URL path set are percent
\* encoded; of the component names used here only the space is
PercentEncode(segment) ==
    CASE segment = "my post" -> "my%20post"
      [] segment = "old post" -> "old%20post"
      [] OTHER -> segment

\* lines 553-557: index.html is stored under the directory key itself
SitePathNoIndexRule(components, filename) == Append(components, filename)

SitePath(components, filename) ==
    IF filename # "index.html" THEN Append(components, filename) ELSE components

\* lines 558-562: the site path as the path of an URL, leading slashes
\* trimmed, read back component by component (empty components vanish)
PathUrlized(site_path) ==
    LET segs == SelectSeq(site_path, LAMBDA c : c # "")
    IN  [i \in 1..Len(segs) |-> PercentEncode(segs[i])]

MemoryKey(components, filename) == PathUrlized(SitePath(components, filename))

\* line 519: whether the directories of the components are created
WriteDirsDiskOnly(mode, create_dirs) == mode = "Disk"

WriteDirs(mode, create_dirs) == mode = "Disk" \/ create_dirs

\* lines 547-566: the final content goes to the file of the path in Disk
\* mode, to the key of the in-memory map in Memory mode
MaterializedInBoth(mode, files, mem, current_path, components, filename, final_content) ==
    [files |-> Upsert(files, Append(current_path, filename), final_content),
     mem |-> Upsert(mem, MemoryKey(components, filename), final_content)]

Materialized(mode, files, mem, current_path, components, filename, final_content) ==
    IF mode = "Disk"
    THEN [files |-> Upsert(files, Append(current_path, filename), final_content),
          mem |-> mem]
    ELSE [files |-> files,
          mem |-> Upsert(mem, MemoryKey(components, filename), final_content)]

\* Site::write_content.  io is the outcome of the filesystem calls:
\* "ok", or "io_error" (ensure_directory_exists fails, nothing is done).
\* Yields the Result, the returned path and the two output targets after it.
WriteContent(mode, minify_html, files, mem, components, filename, content, create_dirs, io) ==
    LET write_dirs == WriteDirs(mode, create_dirs)
        current_path == OsPath(components)
        dirs1 == files.dirs \cup {<< >>}
        dirs2 == IF write_dirs THEN dirs1 \cup Prefixes(current_path) ELSE dirs1
        minify == EndsWithHtml(filename) /\ minify_html
        final_content == IF minify THEN Minified(content) ELSE content
        out == Materialized(mode, files.files, mem, current_path, components, filename,
                            final_content)
    IN  IF io = "io_error"
        THEN [res |-> Err("io"), path |-> << >>, fs |-> files, mem |-> mem]
        ELSE IF minify /\ MinifyFails(content)
        THEN [res |-> Err("minify"), path |-> << >>,
              fs |-> [files EXCEPT !.dirs = dirs2], mem |-> mem]
        ELSE [res |-> Ok, path |-> current_path,
              fs |-> [dirs |-> dirs2, files |-> out.files],
              mem |-> out.mem]

(***************************************************************************)
(* SpecWrite: write_content called with arbitrary arguments.               *)
(***************************************************************************)
ComponentLists ==
    {<< >>, <<"blog", "post-1">>, <<"blog", "post-1", "">>, <<"my post">>}
Filenames == {"index.html", "404.html", "robots.txt"}
Contents == [body : {"ok_html", "bad_html"}, min : {FALSE}]
IoOutcomes == {"ok", "io_error"}

InitWrite ==
    /\ NoSite
    /\ build_mode \in BuildModes
    /\ config \in [minify_html : BOOLEAN]
    /\ fs = EmptyFs
    /\ site_content = EmptyMap
    /\ pc = "idle"
    /\ loc = [op |-> "none"]
    /\ result = NoResult
    /\ nops = 0

WriteContentCall ==
    /\ nops < MaxWrites
    /\ \E components \in ComponentLists, filename \in Filenames,
          content \in Contents, create_dirs \in BOOLEAN, io \in IoOutcomes :
          LET w == WriteContent(build_mode, config.minify_html, fs, site_content,
                                components, filename, content, create_dirs, io)
          IN  /\ fs' = w.fs
              /\ site_content' = w.mem
              /\ result' = w.res
              /\ loc' = [op |-> "write_content", components |-> components,
                         filename |-> filename, content |-> content,
                         create_dirs |-> create_dirs, path |-> w.path,
                         mem_before |-> site_content]
    /\ nops' = nops + 1
    /\ UNCHANGED <<build_mode, config, pc>>
    /\ UNCHANGED siteVars

NextWrite == WriteContentCall

SpecWrite == InitWrite /\ [][NextWrite]_vars


\* ---- claims about write_content ----

\* the content write_content stores for the last call
StoredContent ==
    IF config.minify_html /\ EndsWithHtml(loc.filename)
    THEN Minified(loc.content) ELSE loc.content

\* the components of the last call, the file name added unless it is
\* index.html, without the empty components
PlainKey ==
    SelectSeq(IF loc.filename = "index.html" THEN loc.components
              ELSE loc.components \o <<loc.filename>>,
              LAMBDA c : c # "")

MemoryWriteDone ==
    loc.op = "write_content" /\ build_mode = "Memory" /\ result.ok

sitemap_limit == 30000

Min(a, b) == IF a < b THEN a ELSE b

\* format!("sitemap{}.xml", i + 1), for the chunk numbers the model reaches
SitemapFileName(i) ==
    CASE i = 1 -> "sitemap1.xml"
      [] i = 2 -> "sitemap2.xml"
      [] i = 3 -> "sitemap3.xml"
      [] i = 4 -> "sitemap4.xml"
      [] OTHER -> "sitemapN.xml"

\* Config::make_permalink: base url, the path, and a trailing slash unless
\* the path is empty; a permalink is the sequence of its parts
MakePermalink(path) ==
    IF path = "" THEN <<"http://base", "/">>
    ELSE <<"http://base", "/", path, "/">>

\* String::pop: the last character removed
Pop(s) == SubSeq(s, 1, Len(s) - 1)

\* slice::chunks(sitemap_limit) over the entries lo..n, each chunk given by
\* its first and last entry
RECURSIVE ChunksNoLimit(_, _)
ChunksNoLimit(lo, n) ==
    IF lo > n THEN << >>
    ELSE LET hi == Min(lo + sitemap_limit, n)
         IN  <<[lo |-> lo, hi |-> hi]>> \o ChunksNoLimit(hi + 1, n)

RECURSIVE Chunks(_, _)
Chunks(lo, n) ==
    IF lo > n THEN << >>
    ELSE LET hi == Min(lo + sitemap_limit - 1, n)
         IN  <<[lo |-> lo, hi |-> hi]>> \o Chunks(hi + 1, n)

\* the sitemap.xml template rendered for the entries lo..hi
SitemapDoc(lo, hi) == [body |-> "sitemap", min |-> FALSE, lo |-> lo, hi |-> hi]

\* the split_sitemap_index.xml template rendered for the sitemap urls
SitemapIndexDoc(urls) == [body |-> "sitemap_index", min |-> FALSE, sitemaps |-> urls]

\* lines 838: whether a single sitemap is written
SingleSitemapInclusive(n) == n <= sitemap_limit

SingleSitemap(n) == n < sitemap_limit

\* lines 849-860: the loop over the chunks from chunk i on.  st is
\* [res, fs, mem, index, written]; fail_at is the number of the document
\* whose template rendering or write fails (0: none).
RECURSIVE WriteChunks(_, _, _, _, _, _)
WriteChunks(mode, minify_html, st, chunks, i, fail_at) ==
    IF i > Len(chunks) \/ ~st.res.ok THEN st
    ELSE IF fail_at = i THEN [st EXCEPT !.res = Err("render_template")]
    ELSE LET file_name == SitemapFileName(i)
             w == WriteContent(mode, minify_html, st.fs, st.mem, << >>, file_name,
                               SitemapDoc(chunks[i].lo, chunks[i].hi), FALSE, "ok")
             sitemap_url == Pop(MakePermalink(file_name))
         IN  WriteChunks(mode, minify_html,
                         [res |-> w.res, fs |-> w.fs, mem |-> w.mem,
                          index |-> Append(st.index, sitemap_url),
                          written |-> Append(st.written, file_name)],
                         chunks, i + 1, fail_at)

\* Site::render_sitemap for n entries
RenderSitemap(mode, minify_html, files, mem, n, fail_at) ==
    LET st0 == [res |-> Ok, fs |-> [files EXCEPT !.dirs = @ \cup {<< >>}],
                mem |-> mem, index |-> << >>, written |-> << >>]
    IN  IF SingleSitemap(n)
        THEN IF fail_at = 1 THEN [st0 EXCEPT !.res = Err("render_template")]
             ELSE LET w == WriteContent(mode, minify_html, st0.fs, st0.mem, << >>,
                                        "sitemap.xml", SitemapDoc(1, n), FALSE, "ok")
                  IN  [res |-> w.res, fs |-> w.fs, mem |-> w.mem, index |-> << >>,
                       written |-> <<"sitemap.xml">>]
        ELSE LET chunks == Chunks(1, n)
                 st1 == WriteChunks(mode, minify_html, st0, chunks, 1, fail_at)
             IN  IF ~st1.res.ok THEN st1
                 ELSE IF fail_at = Len(chunks) + 1
                 THEN [st1 EXCEPT !.res = Err("render_template")]
                 ELSE LET w == WriteContent(mode, minify_html, st1.fs, st1.mem, << >>,
                                            "sitemap.xml", SitemapIndexDoc(st1.index),
                                            FALSE, "ok")
                      IN  [res |-> w.res, fs |-> w.fs, mem |-> w.mem,
                           index |-> st1.index,
                           written |-> Append(st1.written, "sitemap.xml")]

(***************************************************************************)
(* SpecSitemap: render_sitemap on a fresh output, for entry counts around  *)
(* the multiples of the limit.                                             *)
(***************************************************************************)
EntryCounts ==
    {n \in {k * sitemap_limit + d : k \in 0..MaxFullChunks, d \in {-1, 0, 1}} : n >= 1}

InitSitemap ==
    /\ NoSite
    /\ build_mode \in BuildModes
    /\ config \in [minify_html : BOOLEAN]
    /\ fs = EmptyFs
    /\ site_content = EmptyMap
    /\ pc = "idle"
    /\ loc \in [op : {"none"}, n : EntryCounts]
    /\ result = NoResult
    /\ nops = 0

RenderSitemapCall ==
    /\ nops = 0
    /\ \E fail_at \in 0..(MaxFullChunks + 2) :
          LET r == RenderSitemap(build_mode, config.minify_html, fs, site_content,
                                 loc.n, fail_at)
          IN  /\ fs' = r.fs
              /\ site_content' = r.mem
              /\ result' = r.res
              /\ loc' = [op |-> "render_sitemap", n |-> loc.n,
                         index |-> r.index, written |-> r.written]
    /\ nops' = 1
    /\ UNCHANGED <<build_mode, config, pc>>
    /\ UNCHANGED siteVars

NextSitemap == RenderSitemapCall

SpecSitemap == InitSitemap /\ [][NextSitemap]_vars


\* ---- claims about render_sitemap ----

\* the documents of the output target the build mode selects, by path
Output == IF build_mode = "Disk" THEN fs.files ELSE site_content

SitemapDone == loc.op = "render_sitemap" /\ result.ok

\* the number of sitemap documents (lists of entries, not the index) written
SitemapDocuments ==
    Cardinality({k \in DOMAIN Output : Output[k].body = "sitemap"})

\* C4 (as stated): a single sitemap document is written whenever the entry
\* count does not exceed the limit of 30000; splitting happens only above it.
C4_SingleUpToLimit ==
    (SitemapDone /\ loc.n <= sitemap_limit) => loc.written = <<"sitemap.xml">>

\* C4 (amended): the number of sitemap documents is ceil(n / 30000) once the
\* split is taken, which gives 1, 1, 1, 2, 3 for 1, 29999, 30000, 30001 and
\* 60001 entries; the single unsplit sitemap.xml is written only for a count
\* strictly below 30000, and from 30000 entries on the chunks are written as
\* numbered files together with the index sitemap.xml.
C4_ChunkDocuments ==
    SitemapDone =>
        /\ SitemapDocuments =
               IF loc.n < sitemap_limit THEN 1
               ELSE (loc.n + sitemap_limit - 1) \div sitemap_limit
        /\ loc.n < sitemap_limit =>
               /\ loc.written = <<"sitemap.xml">>
               /\ Output[<<"sitemap.xml">>].body = "sitemap"
        /\ loc.n >= sitemap_limit =>
               /\ Len(loc.written) = SitemapDocuments + 1
               /\ Output[<<"sitemap.xml">>].body = "sitemap_index"
        /\ loc.n \in {1, 29999, 30000} => SitemapDocuments = 1
        /\ loc.n = 30001 => SitemapDocuments = 2
        /\ loc.n = 60001 => SitemapDocuments = 3

\* C4 witness: exactly 30000 entries rendered successfully.
C4_Witness == SitemapDone /\ loc.n = sitemap_limit

\* C5: when render_sitemap splits, the chunks partition the entries in
\* order, each of at most 30000 entries, chunk i is the file sitemap<i>.xml
\* counted from 1, and the index sitemap.xml lists the urls of exactly the
\* chunk files written, none ending with a slash.
C5_ChunksPartition ==
    (SitemapDone /\ loc.n >= sitemap_limit) =>
        LET k == Len(loc.written) - 1
            doc(i) == Output[<<SitemapFileName(i)>>]
        IN  /\ k >= 1
            /\ DOMAIN Output =
                   {<<SitemapFileName(i)>> : i \in 1..k} \cup {<<"sitemap.xml">>}
            /\ \A i \in 1..k :
                   /\ loc.written[i] = SitemapFileName(i)
                   /\ doc(i).body = "sitemap"
                   /\ doc(i).hi - doc(i).lo + 1 \in 1..sitemap_limit
            /\ doc(1).lo = 1
            /\ doc(k).hi = loc.n
            /\ \A i \in 1..(k - 1) : doc(i + 1).lo = doc(i).hi + 1
            /\ loc.written[k + 1] = "sitemap.xml"
            /\ Output[<<"sitemap.xml">>].sitemaps =
                   [i \in 1..k |-> <<"http://base", "/", SitemapFileName(i)>>]
            /\ \A i \in 1..k :
                   LET u == Output[<<"sitemap.xml">>].sitemaps[i]
                   IN  u[Len(u)] # "/"

\* C5 witness: 60001 entries written as three chunks and the index.
C5_Witness == SitemapDone /\ loc.n = 2 * sitemap_limit + 1 /\ Len(loc.written) = 4

(***************************************************************************)
(* render_paginated                                                        *)
(***************************************************************************)
\* format!("{}", pager.index)
PagerPath(index) ==
    CASE index = 1 -> "1" [] index = 2 -> "2" [] index = 3 -> "3"
      [] index = 4 -> "4" [] OTHER -> "N"

\* Paginator::render_pager: the listing of pager index
PagerDoc(index) == [body |-> "pager", min |-> FALSE, index |-> index]

\* render_redirect_template: a document that redirects to permalink
RedirectDoc(permalink) == [body |-> "redirect", min |-> FALSE, to |-> permalink]

\* lines 1038-1041: the numbered path of a pager
PagerComponents(index_components, paginate_path, index) ==
    index_components \o <<paginate_path, PagerPath(index)>>

\* line 1050: whether the pager's content goes to its numbered path
AtNumberedPathFromOne(index) == index >= 1

AtNumberedPath(index) == index > 1

\* the two output targets after one write; an error leaves them as they are
\* but for the directories made
Written(components, filename, content) ==
    WriteContent(build_mode, config.minify_html, fs, site_content,
                 components, filename, content, FALSE, "ok")

\* the pager tasks of the running render_paginated
Pagers == 1..loc.n

\* a task of the parallel iterator runs its first step: render_pager, then
\* the write of the content (lines 1042-1053)
PagerWriteContent(i) ==
    /\ pc = "render_paginated"
    /\ loc.task[i] = "start"
    /\ LET target == IF AtNumberedPath(i)
                     THEN PagerComponents(loc.components, loc.paginate_path, i)
                     ELSE loc.components
           w == Written(target, "index.html", PagerDoc(i))
       IN  /\ fs' = w.fs
           /\ site_content' = w.mem
           /\ loc' = [loc EXCEPT !.task[i] =
                        IF ~w.res.ok THEN "failed"
                        ELSE IF AtNumberedPath(i) THEN "done" ELSE "index_written"]
    /\ UNCHANGED <<build_mode, config, pc, result, nops>>
    /\ UNCHANGED siteVars

\* the task of pager 1 runs its second step: the redirect at the numbered
\* path (lines 1054-1059)
PagerWriteRedirect(i) ==
    /\ pc = "render_paginated"
    /\ loc.task[i] = "index_written"
    /\ LET w == Written(PagerComponents(loc.components, loc.paginate_path, i),
                        "index.html", RedirectDoc(loc.permalink))
       IN  /\ fs' = w.fs
           /\ site_content' = w.mem
           /\ loc' = [loc EXCEPT !.task[i] = IF w.res.ok THEN "done" ELSE "failed"]
    /\ UNCHANGED <<build_mode, config, pc, result, nops>>
    /\ UNCHANGED siteVars

\* render_pager or render_redirect_template returns an error in a task
PagerRenderFails(i) ==
    /\ pc = "render_paginated"
    /\ loc.task[i] \in {"start", "index_written"}
    /\ loc' = [loc EXCEPT !.task[i] = "failed"]
    /\ UNCHANGED <<build_mode, config, fs, site_content, pc, result, nops>>
    /\ UNCHANGED siteVars

\* after an error the parallel iterator may drop the tasks not yet started
PagerSkipped(i) ==
    /\ pc = "render_paginated"
    /\ loc.task[i] = "start"
    /\ \E j \in Pagers : loc.task[j] = "failed"
    /\ loc' = [loc EXCEPT !.task[i] = "skipped"]
    /\ UNCHANGED <<build_mode, config, fs, site_content, pc, result, nops>>
    /\ UNCHANGED siteVars

\* collect::<Result<()>>(): every task has ended
RenderPaginatedReturn ==
    /\ pc = "render_paginated"
    /\ \A i \in Pagers : loc.task[i] \in {"done", "failed", "skipped"}
    /\ result' = IF \E i \in Pagers : loc.task[i] = "failed"
                 THEN Err("render_paginated") ELSE Ok
    /\ pc' = "returned"
    /\ UNCHANGED <<build_mode, config, fs, site_content, loc, nops>>
    /\ UNCHANGED siteVars

(***************************************************************************)
(* SpecPaginated: render_paginated over an output that may already hold   *)
(* alias redirects at the paths it writes.                                 *)
(***************************************************************************)
\* render_alias of an alias whose last part is no .html file name
\* (lines 701-717): a redirect at alias/index.html
RECURSIVE RenderAliasesInto(_, _, _, _, _)
RenderAliasesInto(mode, minify_html, files, mem, aliases) ==
    IF aliases = << >> THEN [fs |-> files, mem |-> mem]
    ELSE LET w == WriteContent(mode, minify_html, files, mem, Head(aliases),
                               "index.html", RedirectDoc(<<"alias">>), FALSE, "ok")
         IN  RenderAliasesInto(mode, minify_html, w.fs, w.mem, Tail(aliases))

\* the sequences without repetition over the set S
RECURSIVE Orderings(_)
Orderings(S) ==
    IF S = {} THEN {<< >>}
    ELSE UNION {{<<x>> \o o : o \in Orderings(S \ {x})} : x \in S}

PaginatedParents == {<<"blog">>, <<"my post">>}

InitPaginated ==
    /\ NoSite
    /\ build_mode \in BuildModes
    /\ config \in [minify_html : {FALSE}]
    /\ pc = "render_paginated"
    /\ result = NoResult
    /\ nops = 0
    /\ \E n \in 1..MaxPagers, components \in PaginatedParents :
         \E stale \in SUBSET ({components} \cup
                        {PagerComponents(components, "page", i) : i \in 1..n}) :
           LET order == CHOOSE o \in Orderings(stale) : TRUE
               before == RenderAliasesInto(build_mode, FALSE, EmptyFs, EmptyMap, order)
           IN  /\ fs = before.fs
               /\ site_content = before.mem
               /\ loc = [op |-> "render_paginated", n |-> n,
                         components |-> components, paginate_path |-> "page",
                         permalink |-> MakePermalink(components[1]),
                         task |-> [i \in 1..n |-> "start"],
                         before |-> IF build_mode = "Disk" THEN before.fs.files
                                    ELSE before.mem]

NextPaginated ==
    \/ \E i \in Pagers : PagerWriteContent(i)
    \/ \E i \in Pagers : PagerWriteRedirect(i)
    \/ \E i \in Pagers : PagerRenderFails(i)
    \/ \E i \in Pagers : PagerSkipped(i)
    \/ RenderPaginatedReturn

SpecPaginated == InitPaginated /\ [][NextPaginated]_vars

\* ---- claims about render_paginated ----

\* where the output target keeps index.html of the given components
IndexLocation(components) ==
    IF build_mode = "Disk" THEN Append(OsPath(components), "index.html")
    ELSE MemoryKey(components, "index.html")

PaginatedDone == loc.op = "render_paginated" /\ pc = "returned" /\ result.ok

\* C6: after render_paginated has completed, in any interleaving of the
\* pager tasks, the parent's index path holds the content of pager 1, the
\* numbered path of pager 1 holds a redirect to the paginator's permalink,
\* every pager i >= 2 is at its numbered path, which holds no redirect, and
\* nothing else was written.
C6_PagerLocations ==
    PaginatedDone =>
        LET numbered(i) ==
                IndexLocation(PagerComponents(loc.components, loc.paginate_path, i))
            index == IndexLocation(loc.components)
        IN  /\ DOMAIN Output =
                   DOMAIN loc.before \cup {index} \cup {numbered(i) : i \in 1..loc.n}
            /\ Output[index] = PagerDoc(1)
            /\ Output[numbered(1)] = RedirectDoc(loc.permalink)
            /\ \A i \in 2..loc.n :
                   /\ Output[numbered(i)] = PagerDoc(i)
                   /\ Output[numbered(i)].body # "redirect"
            /\ \A k \in DOMAIN loc.before \ ({index} \cup {numbered(i) : i \in 1..loc.n}) :
                   Output[k] = loc.before[k]

\* C6 witness: a paginator of three pagers completed over an output that
\* held a redirect at the numbered path of pager 2.
C6_Witness ==
    /\ PaginatedDone
    /\ loc.n = 3
    /\ LET p == IndexLocation(PagerComponents(loc.components, loc.paginate_path, 2))
       IN  p \in DOMAIN loc.before /\ loc.before[p].body = "redirect"


(***************************************************************************)
(* The content directory, and the documents parsing gives.                 *)
(***************************************************************************)
default_language == "en"

\* config.languages, by code
Languages == <<"fr">>

\* the files the glob of load() may find, sections and pages, in glob order
SectionFiles == <<"_index.fr.md", "_index.md", "blog/_index.md">>
PageFiles == <<"a.md", "blog/b.md">>

\* file.parent, relative to the content directory
FileParent(f) == IF f \in {"blog/_index.md", "blog/b.md"} THEN "blog" ELSE ""

\* format!("_index.{}.md", lang)
IndexFileName(lang) == IF lang = "fr" THEN "_index.fr.md" ELSE "_index.md"

\* Site::index_section_paths: the default language first, its language None
IndexSectionPaths ==
    <<[path |-> "_index.md", lang |-> "None"]>> \o
    [i \in 1..Len(Languages) |->
        [path |-> IndexFileName(Languages[i]), lang |-> Languages[i]]]

\* Section::from_file: the path and the language follow from the file
ParsedSection(f, in_search_index, aliases) ==
    LET path == CASE f = "_index.md" -> ""
                  [] f = "_index.fr.md" -> "fr"
                  [] OTHER -> FileParent(f)
    IN  [file |-> f, parent |-> FileParent(f),
         lang |-> IF f = "_index.fr.md" THEN "fr" ELSE default_language,
         path |-> path, permalink |-> MakePermalink(path),
         in_search_index |-> in_search_index, aliases |-> aliases, render |-> TRUE,
         redirect_to |-> "", paginate |-> 0, rendered |-> FALSE, pages |-> {},
         ancestors |-> << >>,
         insert_anchor_links |-> CASE f = "_index.md" -> "Left"
                                   [] f = "blog/_index.md" -> "Right"
                                   [] OTHER -> "None"]

\* Page::from_file: the path comes from the front matter or the file name
ParsedPage(f, path, draft, aliases) ==
    [file |-> f, parent |-> FileParent(f), lang |-> default_language,
     path |-> path, permalink |-> MakePermalink(path), draft |-> draft,
     aliases |-> aliases, tags |-> IF f = "a.md" THEN {"rust"} ELSE {},
     rendered |-> FALSE, insert_anchor |-> "unset"]

ParseError == [ok |-> FALSE]
Parsed(doc) == [ok |-> TRUE, doc |-> doc]

\* lines 278-296: the default index section made for an index path
SynthIndexSectionFileNamePermalink(ip) ==
    [ParsedSection(ip.path, TRUE, << >>) EXCEPT
        !.permalink = MakePermalink(ip.path), !.insert_anchor_links = "None"]

SynthIndexSection(ip) ==
    IF ip.lang # "None"
    THEN [ParsedSection(ip.path, TRUE, << >>) EXCEPT
             !.path = ip.lang, !.permalink = MakePermalink(ip.lang), !.lang = ip.lang,
             !.insert_anchor_links = "None"]
    ELSE [ParsedSection(ip.path, TRUE, << >>) EXCEPT
             !.path = "", !.permalink = MakePermalink(""), !.lang = default_language,
             !.insert_anchor_links = "None"]

(***************************************************************************)
(* Library (components/library).                                           *)
(***************************************************************************)
Without(f, k) == [x \in DOMAIN f \ {k} |-> f[x]]

InsertPage(lib, page) == [lib EXCEPT !.pages = Upsert(@, page.file, page)]
RemovePage(lib, file) == [lib EXCEPT !.pages = Without(@, file)]
InsertSection(lib, section) == [lib EXCEPT !.sections = Upsert(@, section.file, section)]
RemoveSection(lib, file) == [lib EXCEPT !.sections = Without(@, file)]
ContainsSection(lib, file) == file \in DOMAIN lib.sections

DocFiles(lib) == DOMAIN lib.pages \cup DOMAIN lib.sections
PermalinkOf(lib, f) ==
    IF f \in DOMAIN lib.pages THEN lib.pages[f].permalink ELSE lib.sections[f].permalink

\* Library::check_for_path_collisions: the groups of more than one document
\* with the same permalink
CheckForPathCollisions(lib) ==
    {g \in {{d \in DocFiles(lib) : PermalinkOf(lib, d) = PermalinkOf(lib, f)} :
                f \in DocFiles(lib)} : Cardinality(g) > 1}

\* the sections above the section s, from the root down
Ancestors(lib, s) ==
    IF lib.sections[s].parent # "" /\ "_index.md" \in DOMAIN lib.sections
    THEN <<"_index.md">> ELSE << >>

\* Library::populate_sections: every section gets the pages of its directory
\* and language, and the sections above it
PopulateSections(lib) ==
    [lib EXCEPT !.sections =
        [s \in DOMAIN @ |->
            [@[s] EXCEPT !.pages =
                {p \in DOMAIN lib.pages :
                    /\ lib.pages[p].parent = lib.sections[s].parent
                    /\ lib.pages[p].lang = lib.sections[s].lang},
                         !.ancestors = Ancestors(lib, s)]]]

\* every page taken for an orphan
AllPagesAsOrphans(lib) == DOMAIN lib.pages

\* Library::get_all_orphan_pages: the pages no section lists
GetAllOrphanPages(lib) ==
    {p \in DOMAIN lib.pages :
        \A s \in DOMAIN lib.sections : p \notin lib.sections[s].pages}

\* the terms there may be, in the order of their slugs
TermNames == <<"go", "rust">>

\* the terms the pages declare, each with the pages that declare it
TermItems(lib) ==
    LET used == SelectSeq(TermNames,
                          LAMBDA t : \E p \in DOMAIN lib.pages : t \in lib.pages[p].tags)
    IN  [i \in 1..Len(used) |->
            [slug |-> used[i], permalink |-> <<"http://base", "/", "tags", "/", used[i], "/">>,
             pages |-> {p \in DOMAIN lib.pages : used[i] \in lib.pages[p].tags}]]

\* library::find_taxonomies: the taxonomy of the configuration (tags, in the
\* default language) with one term per declared tag
FindTaxonomies(lib) ==
    <<[slug |-> "tags", lang |-> default_language, paginate |-> 0, feed |-> FALSE,
       items |-> TermItems(lib)]>>

(***************************************************************************)
(* Site: the operations on the library.                                    *)
(***************************************************************************)
\* Site::create_default_index_sections from index path i on
RECURSIVE CreateDefaultIndexSectionsFrom(_, _, _)
CreateDefaultIndexSectionsFrom(lib, build_search_index, i) ==
    IF i > Len(IndexSectionPaths) THEN [res |-> Ok, lib |-> lib]
    ELSE LET ip == IndexSectionPaths[i]
         IN  IF /\ ContainsSection(lib, ip.path)
                /\ build_search_index
                /\ ~lib.sections[ip.path].in_search_index
             THEN [res |-> Err("search_disabled_in_index_section"), lib |-> lib]
             ELSE CreateDefaultIndexSectionsFrom(
                      IF ~ContainsSection(lib, ip.path)
                      THEN InsertSection(lib, SynthIndexSection(ip)) ELSE lib,
                      build_search_index, i + 1)

\* create_default_index_sections with the check made on _index.md only
CreateDefaultIndexSectionsDefaultRootOnly(lib, build_search_index) ==
    IF /\ ContainsSection(lib, "_index.md")
       /\ build_search_index
       /\ ~lib.sections["_index.md"].in_search_index
    THEN [res |-> Err("search_disabled_in_index_section"), lib |-> lib]
    ELSE CreateDefaultIndexSectionsFrom(lib, FALSE, 1)

CreateDefaultIndexSections(lib, build_search_index) ==
    CreateDefaultIndexSectionsFrom(lib, build_search_index, 1)

\* PathBuf::join of a directory of the content and a file name
JoinPath(parent_path, name) ==
    IF parent_path = "" THEN name
    ELSE IF name = "_index.md" THEN "blog/_index.md" ELSE "blog/_index.fr.md"

\* Site::find_parent_section_insert_anchor
FindParentSectionInsertAnchor(lib, parent_path, lang) ==
    LET parent == IF lang # default_language
                  THEN JoinPath(parent_path, IndexFileName(lang))
                  ELSE JoinPath(parent_path, "_index.md")
    IN  IF parent \in DOMAIN lib.sections
        THEN lib.sections[parent].insert_anchor_links ELSE "None"

\* add_page that keeps the permalink the index already has for the path
AddPageKeepingPermalink(links, lib, page, render_md, md_ok) ==
    LET links1 == IF page.file \in DOMAIN links THEN links
                  ELSE Upsert(links, page.file, page.permalink)
    IN  IF render_md /\ ~md_ok
        THEN [res |-> Err("render_markdown"), permalinks |-> links1, lib |-> lib]
        ELSE [res |-> Ok, permalinks |-> links1,
              lib |-> InsertPage(RemovePage(lib, page.file),
                                 [page EXCEPT !.rendered = render_md])]

\* Site::add_page; md_ok is the outcome of Page::render_markdown
AddPage(links, lib, page, render_md, md_ok) ==
    LET links1 == Upsert(links, page.file, page.permalink)
    IN  IF render_md /\ ~md_ok
        THEN [res |-> Err("render_markdown"), permalinks |-> links1, lib |-> lib]
        ELSE [res |-> Ok, permalinks |-> links1,
              lib |-> InsertPage(RemovePage(lib, page.file),
                                 [page EXCEPT
                                     !.rendered = render_md,
                                     !.insert_anchor =
                                         IF render_md
                                         THEN FindParentSectionInsertAnchor(
                                                  lib, page.parent, page.lang)
                                         ELSE @])]

\* Site::add_section; md_ok is the outcome of Section::render_markdown
AddSection(links, lib, section, render_md, md_ok) ==
    LET links1 == Upsert(links, section.file, section.permalink)
    IN  IF render_md /\ ~md_ok
        THEN [res |-> Err("render_markdown"), permalinks |-> links1, lib |-> lib]
        ELSE [res |-> Ok, permalinks |-> links1,
              lib |-> InsertSection(RemoveSection(lib, section.file),
                                    [section EXCEPT !.rendered = render_md])]

\* Site::render_markdown of every page and section
RenderMarkdown(lib) ==
    [pages |-> [p \in DOMAIN lib.pages |->
                   [lib.pages[p] EXCEPT
                       !.rendered = TRUE,
                       !.insert_anchor = FindParentSectionInsertAnchor(
                                             lib, lib.pages[p].parent, lib.pages[p].lang)]],
     sections |-> [s \in DOMAIN lib.sections |->
                      [lib.sections[s] EXCEPT !.rendered = TRUE]]]

\* the ? operator: an error ends the operation, which returns it
TryIgnoringErrors(r, next) == [pc |-> next, result |-> NoResult]

Try(r, next) ==
    IF r.ok THEN [pc |-> next, result |-> NoResult]
    ELSE [pc |-> "failed", result |-> r]

\* the trace with one more step and its outcome
Step(name, r) == Append(trace, [step |-> name, ok |-> r.ok])

\* lines 238-241: the collisions found become the error
CollisionResultIgnored(collisions) == Ok

CollisionResult(collisions) ==
    IF collisions # {} THEN [ok |-> FALSE, err |-> "collisions", detail |-> collisions]
    ELSE Ok


(***************************************************************************)
(* load()                                                                  *)
(***************************************************************************)
\* the entries of the glob, partitioned as at lines 171-177
SectionEntries == SelectSeq(SectionFiles, LAMBDA f : f \in DOMAIN tree)
PageEntries == SelectSeq(PageFiles, LAMBDA f : f \in DOMAIN tree)

\* Site::include_drafts, called before load
IncludeDrafts ==
    /\ pc = "new"
    /\ ~include_drafts
    /\ include_drafts' = TRUE
    /\ UNCHANGED <<build_mode, config, fs, site_content, pc, loc, result, nops,
                   library, permalinks, taxonomies, tree, trace>>

\* Site::enable_serve_mode, called before load
EnableServeMode ==
    /\ pc = "new"
    /\ build_mode = "Disk"
    /\ site_content' = EmptyMap
    /\ build_mode' = "Memory"
    /\ UNCHANGED <<config, fs, pc, loc, result, nops,
                   library, permalinks, taxonomies, include_drafts, tree, trace>>

\* lines 168-211: the glob, a fresh library, every file parsed
Load ==
    /\ pc = "new"
    /\ library' = EmptyLibrary
    /\ loc' = [op |-> "load", si |-> 1, pi |-> 1]
    /\ pc' = "load_sections"
    /\ trace' = << >>
    /\ UNCHANGED <<build_mode, config, fs, site_content, result, nops,
                   permalinks, taxonomies, include_drafts, tree>>

\* lines 215-218: one turn of the loop over the parsed sections
LoadAddSection ==
    /\ pc = "load_sections"
    /\ loc.si <= Len(SectionEntries)
    /\ LET parsed == tree[SectionEntries[loc.si]]
       IN  IF ~parsed.ok
           THEN /\ trace' = Step("parse_section", Err("parse"))
                /\ pc' = Try(Err("parse"), "load_sections").pc
                /\ result' = Try(Err("parse"), "load_sections").result
                /\ UNCHANGED <<loc, library, permalinks>>
           ELSE LET a == AddSection(permalinks, library, parsed.doc, FALSE, TRUE)
                IN  /\ trace' = Step("add_section", a.res)
                    /\ pc' = Try(a.res, "load_sections").pc
                    /\ result' = Try(a.res, "load_sections").result
                    /\ permalinks' = a.permalinks
                    /\ library' = a.lib
                    /\ loc' = [loc EXCEPT !.si = @ + 1]
    /\ UNCHANGED <<build_mode, config, fs, site_content, nops,
                   taxonomies, include_drafts, tree>>

\* line 220
LoadCreateDefaultIndexSections ==
    /\ pc = "load_sections"
    /\ loc.si > Len(SectionEntries)
    /\ LET c == CreateDefaultIndexSections(library, config.build_search_index)
       IN  /\ trace' = Step("create_default_index_sections", c.res)
           /\ pc' = Try(c.res, "load_pages").pc
           /\ result' = Try(c.res, "load_pages").result
           /\ library' = c.lib
    /\ UNCHANGED <<build_mode, config, fs, site_content, loc, nops,
                   permalinks, taxonomies, include_drafts, tree>>

\* lines 223-234: one turn of the loop over the parsed pages
LoadAddPage ==
    /\ pc = "load_pages"
    /\ loc.pi <= Len(PageEntries)
    /\ LET parsed == tree[PageEntries[loc.pi]]
       IN  IF ~parsed.ok
           THEN /\ trace' = Step("parse_page", Err("parse"))
                /\ pc' = Try(Err("parse"), "load_pages").pc
                /\ result' = Try(Err("parse"), "load_pages").result
                /\ UNCHANGED <<loc, library, permalinks>>
           ELSE IF parsed.doc.draft /\ ~include_drafts
           THEN /\ loc' = [loc EXCEPT !.pi = @ + 1]
                /\ UNCHANGED <<trace, pc, result, library, permalinks>>
           ELSE LET a == AddPage(permalinks, library, parsed.doc, FALSE, TRUE)
                IN  /\ trace' = Step("add_page", a.res)
                    /\ pc' = Try(a.res, "load_pages").pc
                    /\ result' = Try(a.res, "load_pages").result
                    /\ permalinks' = a.permalinks
                    /\ library' = a.lib
                    /\ loc' = [loc EXCEPT !.pi = @ + 1]
    /\ UNCHANGED <<build_mode, config, fs, site_content, nops,
                   taxonomies, include_drafts, tree>>

\* lines 236-242
LoadCheckCollisions ==
    /\ pc = "load_pages"
    /\ loc.pi > Len(PageEntries)
    /\ LET r == CollisionResult(CheckForPathCollisions(library))
       IN  /\ trace' = Step("check_for_path_collisions", r)
           /\ pc' = Try(r, "load_populate_taxonomies").pc
           /\ result' = Try(r, "load_populate_taxonomies").result
    /\ UNCHANGED <<build_mode, config, fs, site_content, loc, nops,
                   library, permalinks, taxonomies, include_drafts, tree>>

\* line 430: what Site.taxonomies becomes when the terms found are assigned
ExtendTaxonomies(old, found) == old \o found

AssignTaxonomies(old, found) == found

\* Site::populate_taxonomies, from the state at position at; find_taxonomies
\* may return an error
PopulateTaxonomies(at, next) ==
    /\ pc = at
    /\ \E found \in BOOLEAN :
          LET r == IF found \/ ~config.has_taxonomies THEN Ok ELSE Err("find_taxonomies")
          IN  /\ trace' = Step("populate_taxonomies", r)
              /\ pc' = Try(r, next).pc
              /\ result' = Try(r, next).result
              /\ taxonomies' = IF config.has_taxonomies /\ found
                               THEN AssignTaxonomies(taxonomies, FindTaxonomies(library))
                               ELSE taxonomies
    /\ UNCHANGED <<build_mode, config, fs, site_content, loc, nops,
                   library, permalinks, include_drafts, tree>>

\* line 246
LoadPopulateTaxonomies ==
    PopulateTaxonomies("load_populate_taxonomies", "load_register_early_global_fns")

\* a step of load that changes nothing the model keeps and cannot fail
LoadPlainStep(at, name, next) ==
    /\ pc = at
    /\ trace' = Step(name, Ok)
    /\ pc' = next
    /\ UNCHANGED <<build_mode, config, fs, site_content, loc, result, nops,
                   library, permalinks, taxonomies, include_drafts, tree>>

\* line 247
LoadRegisterEarlyGlobalFns ==
    LoadPlainStep("load_register_early_global_fns", "register_early_global_fns",
                  "load_populate_sections")

\* Site::populate_sections, from the state at position at
PopulateSectionsStep(at, next) ==
    /\ pc = at
    /\ trace' = Step("populate_sections", Ok)
    /\ library' = PopulateSections(library)
    /\ pc' = next
    /\ UNCHANGED <<build_mode, config, fs, site_content, loc, result, nops,
                   permalinks, taxonomies, include_drafts, tree>>

\* line 248
LoadPopulateSectionsThenFns ==
    PopulateSectionsStep("load_populate_sections", "load_register_tera_global_fns")

LoadPopulateSections == PopulateSectionsStep("load_populate_sections", "load_render_markdown")

\* line 249: Site::render_markdown, which a page or a section may fail
LoadRenderMarkdown ==
    /\ pc = "load_render_markdown"
    /\ \E md_ok \in BOOLEAN :
          LET r == IF md_ok THEN Ok ELSE Err("render_markdown")
          IN  /\ trace' = Step("render_markdown", r)
              /\ pc' = Try(r, "load_register_tera_global_fns").pc
              /\ result' = Try(r, "load_register_tera_global_fns").result
              /\ library' = IF md_ok THEN RenderMarkdown(library) ELSE library
    /\ UNCHANGED <<build_mode, config, fs, site_content, loc, nops,
                   permalinks, taxonomies, include_drafts, tree>>

\* line 250
LoadRegisterTeraGlobalFns ==
    LoadPlainStep("load_register_tera_global_fns", "register_tera_global_fns",
                  "load_check_internal_links")

\* a link check of load at position at: it may fail; after the last check
\* load returns Ok
LoadLinkCheck(at, name, next) ==
    /\ pc = at
    /\ \E links_ok \in BOOLEAN :
          LET r == IF links_ok THEN Ok ELSE Err(name)
          IN  /\ trace' = Step(name, r)
              /\ pc' = Try(r, next).pc
              /\ result' = IF r.ok /\ next = "loaded" THEN Ok ELSE Try(r, next).result
    /\ UNCHANGED <<build_mode, config, fs, site_content, loc, nops,
                   library, permalinks, taxonomies, include_drafts, tree>>

\* line 253, and lines 255-259 when the check mode is off
LoadCheckInternalLinks ==
    LoadLinkCheck("load_check_internal_links", "check_internal_links",
                  IF config.check_mode THEN "load_check_external_links" ELSE "loaded")

\* lines 255-259
LoadCheckExternalLinks ==
    LoadLinkCheck("load_check_external_links", "check_external_links", "loaded")

LoadNext ==
    \/ IncludeDrafts
    \/ EnableServeMode
    \/ Load
    \/ LoadAddSection
    \/ LoadCreateDefaultIndexSections
    \/ LoadAddPage
    \/ LoadCheckCollisions
    \/ LoadPopulateTaxonomies
    \/ LoadRegisterEarlyGlobalFns
    \/ LoadPopulateSections
    \/ LoadRenderMarkdown
    \/ LoadRegisterTeraGlobalFns
    \/ LoadCheckInternalLinks
    \/ LoadCheckExternalLinks

(***************************************************************************)
(* Rendering: what each renderer writes.  st is [fs, mem], the two output  *)
(* targets.                                                                *)
(***************************************************************************)
\* Page::render_html and Section::render_html
PageDoc(file) == [body |-> "page", min |-> FALSE, of |-> file]
SectionDoc(file) == [body |-> "section", min |-> FALSE, of |-> file]

\* write_content as the renderers call it, on the output targets st
Write(st, components, filename, content, create_dirs) ==
    LET w == WriteContent(build_mode, config.minify_html, st.fs, st.mem, components, filename, content, create_dirs, "ok")
    IN  [fs |-> w.fs, mem |-> w.mem]

\* line 579: page.path.split('/'); the path ends with a slash
PageComponents(page) == <<page.path, "">>

\* lines 917-936: the language unless it is the default one, then the
\* components of the file
SectionComponents(section) == IF section.path = "" THEN << >> ELSE <<section.path>>

\* Site::render_page
RenderPage(st, page) ==
    Write(st, PageComponents(page), "index.html", PageDoc(page.file), FALSE)

\* the pages of the set files rendered one after the other
RECURSIVE RenderPages(_, _, _)
RenderPages(st, lib, files) ==
    IF files = {} THEN st
    ELSE LET f == CHOOSE x \in files : TRUE
         IN  RenderPages(RenderPage(st, lib.pages[f]), lib, files \ {f})

\* Site::render_paginated, pager i and the ones after it
RECURSIVE RenderPagersFrom(_, _, _, _, _)
RenderPagersFrom(st, components, permalink, n, i) ==
    IF i > n THEN st
    ELSE LET numbered == PagerComponents(components, "page", i)
             st1 == IF AtNumberedPath(i)
                    THEN Write(st, numbered, "index.html", PagerDoc(i), FALSE)
                    ELSE Write(Write(st, components, "index.html", PagerDoc(i), FALSE),
                               numbered, "index.html", RedirectDoc(permalink), FALSE)
         IN  RenderPagersFrom(st1, components, permalink, n, i + 1)

\* lines 971-997: which document render_section writes for the section itself
SectionCasePaginatedFirst(section) ==
    IF ~section.render THEN "none"
    ELSE IF section.paginate > 0 THEN "paginated"
    ELSE IF section.redirect_to # "" THEN "redirect"
    ELSE "listing"

SectionCase(section) ==
    IF ~section.render THEN "none"
    ELSE IF section.redirect_to # "" THEN "redirect"
    ELSE IF section.paginate > 0 THEN "paginated"
    ELSE "listing"

\* Site::render_section
RenderSection(st, lib, section, render_pages) ==
    LET components == SectionComponents(section)
        create_directories == build_mode = "Disk"
        st1 == IF create_directories
               THEN [st EXCEPT !.fs.dirs = @ \cup Prefixes(components)] ELSE st
        st2 == IF render_pages THEN RenderPages(st1, lib, section.pages) ELSE st1
        own == SectionCase(section)
    IN  CASE own = "none" -> st2
          [] own = "redirect" ->
                Write(st2, components, "index.html",
                      RedirectDoc(MakePermalink(section.redirect_to)), create_directories)
          [] own = "paginated" ->
                RenderPagersFrom(st2, components, section.permalink, section.paginate, 1)
          [] own = "listing" ->
                Write(st2, components, "index.html", SectionDoc(section.file), FALSE)

\* str::ends_with(".html") on the last part of an alias
EndsWithDotHtml(part) == part \in {"old.html"}

\* Site::render_alias; an alias is the sequence of its parts between slashes
RenderAlias(st, alias, permalink) ==
    LET last == alias[Len(alias)]
        html == EndsWithDotHtml(last)
    IN  Write(st, IF html THEN SubSeq(alias, 1, Len(alias) - 1) ELSE alias,
              IF html THEN last ELSE "index.html", RedirectDoc(permalink), FALSE)

\* lines 724-726: the aliases of one document, in the order declared
RECURSIVE RenderAliasList(_, _, _)
RenderAliasList(st, aliases, permalink) ==
    IF aliases = << >> THEN st
    ELSE RenderAliasList(RenderAlias(st, Head(aliases), permalink), Tail(aliases), permalink)

\* Site::render_aliases over the documents docs, a sequence of records
RECURSIVE RenderAliasesOf(_, _)
RenderAliasesOf(st, docs) ==
    IF docs = << >> THEN st
    ELSE RenderAliasesOf(RenderAliasList(st, Head(docs).aliases, Head(docs).permalink),
                         Tail(docs))

\* the documents of the library in the order load inserted them
PagesInOrder(lib) ==
    LET fs_ == SelectSeq(PageFiles, LAMBDA f : f \in DOMAIN lib.pages)
    IN  [i \in 1..Len(fs_) |-> lib.pages[fs_[i]]]
SectionsInOrder(lib) ==
    LET fs_ == SelectSeq(SectionFiles, LAMBDA f : f \in DOMAIN lib.sections)
    IN  [i \in 1..Len(fs_) |-> lib.sections[fs_[i]]]

\* Site::render_aliases: the pages, then the sections
RenderAliases(st, lib) ==
    RenderAliasesOf(RenderAliasesOf(st, PagesInOrder(lib)), SectionsInOrder(lib))

\* Site::render_sections, the sections taken in the given order
RECURSIVE RenderSectionsIn(_, _, _)
RenderSectionsIn(st, lib, order) ==
    IF order = << >> THEN st
    ELSE RenderSectionsIn(RenderSection(st, lib, lib.sections[Head(order)], TRUE),
                          lib, Tail(order))

(***************************************************************************)
(* The inputs: configurations and content directories.                     *)
(***************************************************************************)
\* the configurations tried
SiteConfigs ==
    {[minify_html |-> FALSE, build_search_index |-> TRUE, check_mode |-> FALSE,
      has_taxonomies |-> TRUE, compile_sass |-> TRUE, generate_feed |-> TRUE,
      theme_sass |-> FALSE, lang_feed |-> TRUE],
     [minify_html |-> FALSE, build_search_index |-> FALSE, check_mode |-> TRUE,
      has_taxonomies |-> FALSE, compile_sass |-> FALSE, generate_feed |-> FALSE,
      theme_sass |-> TRUE, lang_feed |-> FALSE]}

\* what parsing a file of the content directory may give
SectionOutcomes(f) ==
    {ParseError} \cup
    {Parsed(ParsedSection(f, s, al)) :
        s \in IF f = "blog/_index.md" THEN {TRUE} ELSE BOOLEAN,
        al \in IF f = "blog/_index.md" THEN {<< >>, <<<<"x">>>>} ELSE {<< >>}}

PageOutcomes(f) ==
    {ParseError} \cup
    {Parsed(ParsedPage(f, path, draft, << >>)) :
        path \in IF f = "a.md" THEN {"x", "blog"} ELSE {"x", "y"},
        draft \in IF f = "a.md" THEN BOOLEAN ELSE {FALSE}} \cup
    {Parsed(ParsedPage(f, "x", FALSE, <<<<"y">>, <<"old.html">>>>)) : k \in IF f = "a.md" THEN {1} ELSE {}}

Outcomes(f) ==
    IF \E i \in 1..Len(SectionFiles) : SectionFiles[i] = f
    THEN SectionOutcomes(f) ELSE PageOutcomes(f)

\* the content directories over the given files: each is there or not
RECURSIVE TreesOver(_)
TreesOver(files) ==
    IF files = << >> THEN {EmptyMap}
    ELSE LET rest == TreesOver(Tail(files))
         IN  rest \cup {(Head(files) :> o) @@ t : o \in Outcomes(Head(files)), t \in rest}

(***************************************************************************)
(* add_and_render_page and add_and_render_section (zola serve --fast).     *)
(***************************************************************************)
\* no operation is running on the loaded Site
Idle ==
    \/ pc = "loaded"
    \/ pc \in {"returned", "failed"} /\
       loc.op \in {"build", "add_and_render_page", "add_and_render_section"}

\* lines 365 and 391: the changed file is parsed
RebuildParse(op, files, next) ==
    /\ Idle
    /\ nops < MaxOps
    /\ nops' = nops + 1
    /\ \E f \in files : \E parsed \in Outcomes(f) :
          LET r == IF parsed.ok THEN Ok ELSE Err("parse")
          IN  /\ tree' = Upsert(tree, f, parsed)
              /\ loc' = [op |-> op, path |-> f]
              /\ trace' = <<[step |-> "from_file", ok |-> r.ok]>>
              /\ pc' = Try(r, next).pc
              /\ result' = Try(r, next).result
    /\ UNCHANGED <<build_mode, config, fs, site_content,
                   library, permalinks, taxonomies, include_drafts>>

AddAndRenderPage ==
    RebuildParse("add_and_render_page", {PageFiles[i] : i \in 1..Len(PageFiles)}, "arp_add_page")

\* line 366: add_page(page, true)
ArpAddPage ==
    /\ pc = "arp_add_page"
    /\ \E md_ok \in BOOLEAN :
          LET a == AddPage(permalinks, library, tree[loc.path].doc, TRUE, md_ok)
          IN  /\ trace' = Step("add_page", a.res)
              /\ pc' = Try(a.res, "arp_populate_sections").pc
              /\ result' = Try(a.res, "arp_populate_sections").result
              /\ permalinks' = a.permalinks
              /\ library' = a.lib
    /\ UNCHANGED <<build_mode, config, fs, site_content, loc, nops,
                   taxonomies, include_drafts, tree>>

\* line 367
ArpPopulateSections == PopulateSectionsStep("arp_populate_sections", "arp_populate_taxonomies")

\* line 368
ArpPopulateTaxonomies == PopulateTaxonomies("arp_populate_taxonomies", "arp_render_page")

\* the last step of a rebuild: the document is rendered and written, unless
\* its template fails
RebuildRender(at, name, written) ==
    /\ pc = at
    /\ \E html_ok \in BOOLEAN :
          LET r == IF html_ok THEN Ok ELSE Err("render_html")
          IN  /\ trace' = Step(name, r)
              /\ pc' = Try(r, "returned").pc
              /\ result' = IF r.ok THEN Ok ELSE r
              /\ fs' = IF html_ok THEN written.fs ELSE fs
              /\ site_content' = IF html_ok THEN written.mem ELSE site_content
    /\ UNCHANGED <<build_mode, config, loc, nops,
                   library, permalinks, taxonomies, include_drafts, tree>>

\* lines 369-371
ArpRenderPage ==
    RebuildRender("arp_render_page", "render_page",
                  RenderPage([fs |-> fs, mem |-> site_content], library.pages[loc.path]))

AddAndRenderSection ==
    RebuildParse("add_and_render_section", {SectionFiles[i] : i \in 1..Len(SectionFiles)}, "ars_add_section")

\* line 392: add_section(section, true)
ArsAddSection ==
    /\ pc = "ars_add_section"
    /\ \E md_ok \in BOOLEAN :
          LET a == AddSection(permalinks, library, tree[loc.path].doc, TRUE, md_ok)
          IN  /\ trace' = Step("add_section", a.res)
              /\ pc' = Try(a.res, "ars_populate_sections").pc
              /\ result' = Try(a.res, "ars_populate_sections").result
              /\ permalinks' = a.permalinks
              /\ library' = a.lib
    /\ UNCHANGED <<build_mode, config, fs, site_content, loc, nops,
                   taxonomies, include_drafts, tree>>

\* line 393
ArsPopulateSections == PopulateSectionsStep("ars_populate_sections", "ars_render_section")

\* lines 394-396
ArsRenderSection ==
    RebuildRender("ars_render_section", "render_section",
                  RenderSection([fs |-> fs, mem |-> site_content], library,
                                library.sections[loc.path], TRUE))

RebuildNext ==
    \/ AddAndRenderPage
    \/ ArpAddPage
    \/ ArpPopulateSections
    \/ ArpPopulateTaxonomies
    \/ ArpRenderPage
    \/ AddAndRenderSection
    \/ ArsAddSection
    \/ ArsPopulateSections
    \/ ArsRenderSection

(***************************************************************************)
(* Spec: a Site from construction on.                                      *)
(***************************************************************************)
(***************************************************************************)
(* build().                                                                *)
(***************************************************************************)
\* a file created in the output directory itself, whatever the build mode
CreateFile(st, path, content) ==
    [st EXCEPT !.fs.dirs = @ \cup {<< >>}, !.fs.files = Upsert(@, path, content)]

Asset(kind) == [body |-> kind, min |-> FALSE]

\* lines 597-660: the steps of build in the order of its statements
BuildStepsImagesBeforeTaxonomies ==
    <<"clean", "compile_theme_sass", "compile_sass", "build_search_index",
      "render_aliases", "render_sections", "render_orphan_pages", "render_sitemap",
      "render_feed", "render_lang_feeds", "render_404", "render_robots",
      "process_images", "render_taxonomies", "copy_static_directories">>

BuildStepsAliasesAfterSections ==
    <<"clean", "compile_theme_sass", "compile_sass", "build_search_index",
      "render_sections", "render_aliases", "render_orphan_pages", "render_sitemap",
      "render_feed", "render_lang_feeds", "render_404", "render_robots",
      "render_taxonomies", "process_images", "copy_static_directories">>

BuildSteps ==
    <<"clean", "compile_theme_sass", "compile_sass", "build_search_index",
      "render_aliases", "render_sections", "render_orphan_pages", "render_sitemap",
      "render_feed", "render_lang_feeds", "render_404", "render_robots",
      "render_taxonomies", "process_images", "copy_static_directories">>

\* the conditions under which build runs a step
Runs(step) ==
    CASE step = "clean" -> build_mode = "Disk"
      [] step = "compile_theme_sass" -> config.theme_sass
      [] step = "compile_sass" -> config.compile_sass
      [] step = "build_search_index" -> config.build_search_index
      [] step = "render_feed" -> config.generate_feed
      [] step = "render_lang_feeds" -> config.lang_feed
      [] OTHER -> TRUE

\* the first step from position i on that build runs; "returned" if none
RECURSIVE BuildStepFrom(_)
BuildStepFrom(i) ==
    IF i > Len(BuildSteps) THEN "returned"
    ELSE IF Runs(BuildSteps[i]) THEN BuildSteps[i]
    ELSE BuildStepFrom(i + 1)

\* the step build runs after the step named
After(step) ==
    BuildStepFrom(1 + CHOOSE i \in 1..Len(BuildSteps) : BuildSteps[i] = step)

\* the output targets now
Targets == [fs |-> fs, mem |-> site_content]

\* line 597: build is called
Build ==
    /\ Idle
    /\ nops < MaxOps
    /\ nops' = nops + 1
    /\ loc' = [op |-> "build"]
    /\ trace' = << >>
    /\ pc' = BuildStepFrom(1)
    /\ result' = NoResult
    /\ UNCHANGED <<build_mode, config, fs, site_content,
                   library, permalinks, taxonomies, include_drafts, tree>>

\* a build step that records what it wrote in the permalink index
BuildStepIndexingOutput(step, out) ==
    /\ pc = step
    /\ loc.op = "build"
    /\ \E ok \in BOOLEAN :
          LET r == IF ok THEN Ok ELSE Err(step)
              t == Try(r, After(step))
          IN  /\ trace' = Step(step, r)
              /\ pc' = t.pc
              /\ result' = IF t.pc = "returned" THEN Ok ELSE t.result
              /\ fs' = IF ok THEN out.fs ELSE fs
              /\ site_content' = IF ok THEN out.mem ELSE site_content
              /\ permalinks' = IF ok THEN Upsert(permalinks, step, <<"http://base", "/">>)
                               ELSE permalinks
    /\ UNCHANGED <<build_mode, config, loc, nops,
                   library, taxonomies, include_drafts, tree>>

\* one step of build: it fails and leaves the output as it was, or gives out
BuildStep(step, out) ==
    /\ pc = step
    /\ loc.op = "build"
    /\ \E ok \in BOOLEAN :
          LET r == IF ok THEN Ok ELSE Err(step)
              t == Try(r, After(step))
          IN  /\ trace' = Step(step, r)
              /\ pc' = t.pc
              /\ result' = IF t.pc = "returned" THEN Ok ELSE t.result
              /\ fs' = IF ok THEN out.fs ELSE fs
              /\ site_content' = IF ok THEN out.mem ELSE site_content
    /\ UNCHANGED <<build_mode, config, loc, nops,
                   library, permalinks, taxonomies, include_drafts, tree>>

\* lines 599-601 and Site::clean: the output directory is removed
BuildClean == BuildStep("clean", [Targets EXCEPT !.fs = EmptyFs])

\* lines 604-609
BuildCompileThemeSass ==
    BuildStep("compile_theme_sass", CreateFile(Targets, <<"theme.css">>, Asset("css")))

\* lines 611-613
BuildCompileSass ==
    BuildStep("compile_sass", CreateFile(Targets, <<"style.css">>, Asset("css")))

\* lines 615-617 and Site::build_search_index
BuildSearchIndex ==
    BuildStep("build_search_index",
              CreateFile(CreateFile(Targets, <<"search_index.en.js">>, Asset("search_index")),
                         <<"elasticlunr.min.js">>, Asset("elasticlunr")))

\* line 620
BuildRenderAliases == BuildStep("render_aliases", RenderAliases(Targets, library))

\* line 621: the sections are rendered in parallel, here in any order
BuildRenderSections ==
    \E order \in Orderings(DOMAIN library.sections) :
        BuildStep("render_sections", RenderSectionsIn(Targets, library, order))

\* line 622 and Site::render_orphan_pages
BuildRenderOrphanPages ==
    BuildStep("render_orphan_pages",
              RenderPages([Targets EXCEPT !.fs.dirs = @ \cup {<< >>}], library,
                          GetAllOrphanPages(library)))

\* sitemap::find_entries: one entry per page and per section
SitemapEntries(lib) == Cardinality(DOMAIN lib.pages) + Cardinality(DOMAIN lib.sections)

\* line 623
BuildRenderSitemap ==
    BuildStep("render_sitemap",
              LET r == RenderSitemap(build_mode, config.minify_html, fs, site_content,
                                     SitemapEntries(library), 0)
              IN  [fs |-> r.fs, mem |-> r.mem])

\* Site::render_feed: feed::render_feed gives no feed when there is no page
RenderFeed(st, pages, components) ==
    IF pages = {} THEN [st EXCEPT !.fs.dirs = @ \cup {<< >>}]
    ELSE Write(st, components, "atom.xml", [body |-> "feed", min |-> FALSE, pages |-> pages], FALSE)

PagesOfLang(lib, lang) == {p \in DOMAIN lib.pages : lib.pages[p].lang = lang}

\* lines 626-639
BuildRenderFeed ==
    BuildStep("render_feed", RenderFeed(Targets, PagesOfLang(library, default_language), << >>))

\* lines 641-648, the feeds of the other languages one after the other
RECURSIVE RenderLangFeeds(_, _, _)
RenderLangFeeds(st, lib, langs) ==
    IF langs = << >> THEN st
    ELSE RenderLangFeeds(RenderFeed(st, PagesOfLang(lib, Head(langs)), <<Head(langs)>>),
                         lib, Tail(langs))

BuildRenderLangFeeds ==
    BuildStep("render_lang_feeds", RenderLangFeeds(Targets, library, Languages))

\* line 650 and Site::render_404
BuildRender404 ==
    BuildStep("render_404", Write(Targets, << >>, "404.html", Asset("404"), FALSE))

\* line 651 and Site::render_robots
BuildRenderRobots ==
    BuildStep("render_robots", Write(Targets, << >>, "robots.txt", Asset("robots"), FALSE))

\* lines 788-826: the terms of a taxonomy, here one after the other
RECURSIVE RenderTerms(_, _, _, _)
RenderTerms(st, taxonomy, components, items) ==
    IF items = << >> THEN st
    ELSE LET item == Head(items)
             comp == Append(components, item.slug)
             st1 == IF taxonomy.paginate > 0
                    THEN RenderPagersFrom(st, comp, item.permalink, taxonomy.paginate, 1)
                    ELSE Write(st, comp, "index.html",
                               [body |-> "term", min |-> FALSE, of |-> item.slug], FALSE)
             st2 == IF taxonomy.feed
                    THEN RenderFeed(st1, item.pages, <<taxonomy.slug, item.slug>>)
                    ELSE st1
         IN  RenderTerms(st2, taxonomy, components, Tail(items))

\* lines 774-779: the language unless it is the default one, then the slug
TaxonomyComponentsNoLanguage(taxonomy) == <<taxonomy.slug>>

TaxonomyComponents(taxonomy) ==
    (IF taxonomy.lang # default_language THEN <<taxonomy.lang>> ELSE << >>)
        \o <<taxonomy.slug>>

\* Site::render_taxonomy
RenderTaxonomy(st, taxonomy) ==
    IF taxonomy.items = << >> THEN st
    ELSE LET components == TaxonomyComponents(taxonomy)
             st1 == Write([st EXCEPT !.fs.dirs = @ \cup {<< >>}], components, "index.html",
                          [body |-> "taxonomy", min |-> FALSE, of |-> taxonomy.slug], FALSE)
         IN  RenderTerms(st1, taxonomy, components, taxonomy.items)

\* Site::render_taxonomies
RECURSIVE RenderTaxonomies(_, _)
RenderTaxonomies(st, taxs) ==
    IF taxs = << >> THEN st
    ELSE RenderTaxonomies(RenderTaxonomy(st, Head(taxs)), Tail(taxs))

\* line 652
BuildRenderTaxonomies ==
    BuildStep("render_taxonomies", RenderTaxonomies(Targets, taxonomies))

\* line 655: the images are written below the static directory
BuildProcessImages == BuildStep("process_images", Targets)

\* line 657 and Site::copy_static_directories
BuildCopyStaticDirectories ==
    BuildStep("copy_static_directories", CreateFile(Targets, <<"static.css">>, Asset("static")))

BuildNext ==
    \/ Build
    \/ BuildClean
    \/ BuildCompileThemeSass
    \/ BuildCompileSass
    \/ BuildSearchIndex
    \/ BuildRenderAliases
    \/ BuildRenderSections
    \/ BuildRenderOrphanPages
    \/ BuildRenderSitemap
    \/ BuildRenderFeed
    \/ BuildRenderLangFeeds
    \/ BuildRender404
    \/ BuildRenderRobots
    \/ BuildRenderTaxonomies
    \/ BuildProcessImages
    \/ BuildCopyStaticDirectories

Init ==
    /\ build_mode = "Disk"
    /\ config \in SiteConfigs
    /\ fs = EmptyFs
    /\ site_content = EmptyMap
    /\ pc = "new"
    /\ loc = [op |-> "none"]
    /\ result = NoResult
    /\ nops = 0
    /\ library = EmptyLibrary
    /\ permalinks = EmptyMap
    /\ taxonomies = << >>
    /\ include_drafts = FALSE
    /\ tree \in TreesOver(SectionFiles \o PageFiles)
    /\ trace = << >>

Next == LoadNext \/ RebuildNext \/ BuildNext

Spec == Init /\ [][Next]_vars


\* ---- claims about load ----

LoadReturned == loc.op = "load" /\ pc \in {"loaded", "failed"}
LoadOk == loc.op = "load" /\ pc = "loaded"

LastStep == trace[Len(trace)]

\* the pairs of distinct documents of the library with the same permalink
CollidingPairs ==
    {pair \in DocFiles(library) \X DocFiles(library) :
        /\ pair[1] # pair[2]
        /\ PermalinkOf(library, pair[1]) = PermalinkOf(library, pair[2])}

\* the result is the collision error and one of its entries lists d1 and d2
NamesBoth(d1, d2) ==
    /\ ~result.ok
    /\ result.err = "collisions"
    /\ \E g \in result.detail : {d1, d2} \subseteq g

\* C1 as stated: whenever load has returned and it inserted two distinct
\* documents with the same permalink, what it returned is the collision
\* error that lists both.
C1_CollisionErrorNamesBoth ==
    LoadReturned => \A pair \in CollidingPairs : NamesBoth(pair[1], pair[2])

\* C1: whenever load has returned and it inserted two distinct documents
\* with the same permalink, it returned an error, never Ok; the error is the
\* collision error that lists both documents when load got as far as the
\* collision check, and otherwise the error of a step before that check
\* (a file that does not parse, the default index sections).
C1_CollisionNeverOk ==
    LoadReturned =>
        \A pair \in CollidingPairs :
            /\ pc = "failed"
            /\ ~result.ok
            /\ IF LastStep.step = "check_for_path_collisions"
               THEN NamesBoth(pair[1], pair[2])
               ELSE /\ ~LastStep.ok
                    /\ LastStep.step \in {"parse_section", "add_section", "parse_page",
                                          "add_page", "create_default_index_sections"}

C1_Witness ==
    /\ LoadReturned
    /\ \E pair \in CollidingPairs : NamesBoth(pair[1], pair[2])

\* C2 as stated: in any sequence of load, add_and_render_page and
\* add_and_render_section, no step that renders markdown or writes a
\* document to the output completes while the library holds two distinct
\* documents with the same permalink.
C2_NoRenderWhileColliding ==
    (/\ loc.op \in {"load", "add_and_render_page", "add_and_render_section"}
     /\ Len(trace) > 0
     /\ LastStep.ok
     /\ LastStep.step \in {"render_markdown", "render_page", "render_section"})
        => CheckForPathCollisions(library) = {}

\* the permalink of the root of a language
BasePermalink(ip) == MakePermalink(IF ip.lang = "None" THEN "" ELSE ip.lang)
LangOf(ip) == IF ip.lang = "None" THEN default_language ELSE ip.lang

\* C3: after a successful load, for the default language and for every
\* configured language the library holds exactly one root index section,
\* under the well-known file name; when the content directory had no such
\* file, its permalink is make_permalink("") for the default language and
\* make_permalink(lang) for another one.
C3_RootIndexSections ==
    LoadOk =>
        \A i \in 1..Len(IndexSectionPaths) :
            LET ip == IndexSectionPaths[i]
                roots == {s \in DOMAIN library.sections :
                             /\ library.sections[s].lang = LangOf(ip)
                             /\ library.sections[s].permalink = BasePermalink(ip)}
            IN  /\ roots = {ip.path}
                /\ ip.path \notin DOMAIN tree =>
                      /\ library.sections[ip.path].file = ip.path
                      /\ library.sections[ip.path].permalink = BasePermalink(ip)

C3_Witness ==
    /\ LoadOk
    /\ \A i \in 1..Len(IndexSectionPaths) : IndexSectionPaths[i].path \notin DOMAIN tree
    /\ DOMAIN library.pages # {}

\* ---- claims about build ----

BuildReturned == loc.op = "build" /\ pc = "returned"

\* the place of a step in the order the build is to follow
StepGroup(step) ==
    CASE step = "clean" -> 0
      [] step \in {"compile_theme_sass", "compile_sass", "build_search_index"} -> 1
      [] step = "render_aliases" -> 2
      [] step = "render_sections" -> 3
      [] step = "render_orphan_pages" -> 4
      [] step = "render_sitemap" -> 5
      [] step \in {"render_feed", "render_lang_feeds"} -> 6
      [] step \in {"render_404", "render_robots"} -> 7
      [] step = "render_taxonomies" -> 8
      [] step = "process_images" -> 9
      [] step = "copy_static_directories" -> 10

AlwaysRun ==
    {"render_aliases", "render_sections", "render_orphan_pages", "render_sitemap",
     "render_404", "render_robots", "render_taxonomies", "process_images",
     "copy_static_directories"}

\* C8: the steps a build has run came one by one in this order: stylesheets
\* and search index, aliases, sections, orphan pages, sitemap, feeds, 404 and
\* robots, taxonomies, image processing, static copy; no step ran twice, and
\* a build that returned Ok ran every step that is not optional.
C8_BuildOrder ==
    loc.op = "build" =>
        /\ \A i, j \in 1..Len(trace) :
              i < j => /\ StepGroup(trace[i].step) <= StepGroup(trace[j].step)
                       /\ trace[i].step # trace[j].step
        /\ BuildReturned => AlwaysRun \subseteq {trace[i].step : i \in 1..Len(trace)}

C8_Witness ==
    /\ BuildReturned
    /\ {"compile_sass", "build_search_index", "render_feed"}
           \subseteq {trace[i].step : i \in 1..Len(trace)}

\* the place in the output where a document written with these components
\* and this file name is stored
OutputKey(components, filename) ==
    IF build_mode = "Disk" THEN Append(OsPath(components), filename)
    ELSE MemoryKey(components, filename)

\* the place an alias maps to
AliasKey(alias) ==
    IF EndsWithDotHtml(alias[Len(alias)])
    THEN OutputKey(SubSeq(alias, 1, Len(alias) - 1), alias[Len(alias)])
    ELSE OutputKey(alias, "index.html")

\* the declared aliases of the documents of the library
DeclaredAliases ==
    UNION {{library.pages[p].aliases[i] : i \in 1..Len(library.pages[p].aliases)} :
              p \in DOMAIN library.pages}
    \cup UNION {{library.sections[x].aliases[i] : i \in 1..Len(library.sections[x].aliases)} :
              x \in DOMAIN library.sections}

\* the real documents stored at place k
RealContentAt(k) ==
    {PageDoc(p) : p \in {q \in DOMAIN library.pages :
                           OutputKey(PageComponents(library.pages[q]), "index.html") = k}}
    \cup {SectionDoc(x) : x \in {y \in DOMAIN library.sections :
                           /\ library.sections[y].render
                           /\ library.sections[y].redirect_to = ""
                           /\ library.sections[y].paginate = 0
                           /\ OutputKey(SectionComponents(library.sections[y]), "index.html") = k}}

\* C9: after a successful build, in either build mode, a place of the output
\* that a declared alias and a page or section document both map to holds
\* the document, not the redirect of the alias.
C9_RealContentWins ==
    BuildReturned =>
        \A a \in DeclaredAliases :
            RealContentAt(AliasKey(a)) # {} =>
                /\ AliasKey(a) \in DOMAIN Output
                /\ Output[AliasKey(a)] \in RealContentAt(AliasKey(a))

C9_Witness ==
    /\ BuildReturned
    /\ build_mode = "Memory"
    /\ \E a \in DeclaredAliases : RealContentAt(AliasKey(a)) # {}
    /\ \E a \in DeclaredAliases :
          /\ RealContentAt(AliasKey(a)) = {}
          /\ Output[AliasKey(a)].body = "redirect"

\* C10: in load and in build, a step that returned an error is the last
\* step the operation started, and the operation has then returned that
\* error, not Ok.
C10_ErrorEndsOperation ==
    loc.op \in {"load", "build"} =>
        /\ \A i \in 1..(Len(trace) - 1) : trace[i].ok
        /\ (Len(trace) > 0 /\ ~LastStep.ok) =>
              /\ pc = "failed"
              /\ ~result.ok
              /\ result.err # "pending"
        /\ pc \in {"loaded", "returned"} => result.ok

C10_Witness ==
    /\ loc.op = "build"
    /\ pc = "failed"
    /\ Len(trace) > 4
    /\ result.err = LastStep.step

\* ---- claims about drafts ----

\* C11 as stated: unless include_drafts was called, whenever no operation
\* is running (after load, after add_and_render_page) the library holds no
\* page whose draft flag is set.
C11_NoDraftInLibrary ==
    (Idle /\ ~include_drafts) =>
        \A p \in DOMAIN library.pages : ~library.pages[p].draft

(***************************************************************************)
(* SpecPopulate: a loaded Site whose caller adds pages with add_page and   *)
(* then runs the graph population (populate_sections, then                 *)
(* populate_taxonomies) twice in a row.                                    *)
(***************************************************************************)
\* Site::add_page called on a loaded Site with a page the caller parsed
AddPageCall ==
    /\ pc = "loaded"
    /\ nops < MaxOps
    /\ nops' = nops + 1
    /\ \E i \in 1..Len(PageFiles) : \E parsed \in PageOutcomes(PageFiles[i]) :
       \E render_md \in BOOLEAN, md_ok \in BOOLEAN :
          /\ parsed.ok
          /\ LET a == AddPage(permalinks, library, parsed.doc, render_md, md_ok)
             IN  /\ tree' = Upsert(tree, PageFiles[i], parsed)
                 /\ loc' = [op |-> "add_page", path |-> PageFiles[i]]
                 /\ trace' = <<[step |-> "add_page", ok |-> a.res.ok]>>
                 /\ result' = a.res
                 /\ permalinks' = a.permalinks
                 /\ library' = a.lib
    /\ UNCHANGED <<build_mode, config, fs, site_content, pc, taxonomies, include_drafts>>

\* the caller starts the population
Populate ==
    /\ pc = "loaded"
    /\ pc' = "populate_sections_1"
    /\ loc' = [op |-> "populate"]
    /\ trace' = << >>
    /\ result' = NoResult
    /\ UNCHANGED <<build_mode, config, fs, site_content, nops,
                   library, permalinks, taxonomies, include_drafts, tree>>

PopulateSectionsOnce == PopulateSectionsStep("populate_sections_1", "populate_taxonomies_1")
PopulateTaxonomiesOnce == PopulateTaxonomies("populate_taxonomies_1", "populate_sections_2")
PopulateSectionsAgain == PopulateSectionsStep("populate_sections_2", "populate_taxonomies_2")
PopulateTaxonomiesAgain == PopulateTaxonomies("populate_taxonomies_2", "populated")

PopulateNext ==
    \/ AddPageCall
    \/ Populate
    \/ PopulateSectionsOnce
    \/ PopulateTaxonomiesOnce
    \/ PopulateSectionsAgain
    \/ PopulateTaxonomiesAgain

NextPopulate == LoadNext \/ PopulateNext

SpecPopulate == Init /\ [][NextPopulate]_vars

\* ---- claims about the graph population ----

\* C12: the second of two population runs in a row changes nothing: each of
\* its steps (populate_sections, populate_taxonomies) leaves the child lists
\* of the sections and Site.taxonomies as the first run left them.
C12_PopulationIdempotent ==
    [][(pc \in {"populate_sections_2", "populate_taxonomies_2"})
           => (library' = library /\ taxonomies' = taxonomies)]_vars

C12_Witness ==
    /\ pc = "populated"
    /\ nops > 0
    /\ Len(taxonomies) > 0
    /\ taxonomies[1].items # << >>
    /\ \E s \in DOMAIN library.sections : library.sections[s].pages # {}


\* the terms recomputed from the pages now in the library
RecomputedTaxonomies ==
    IF config.has_taxonomies THEN FindTaxonomies(library) ELSE << >>

\* C13 as stated: whenever load or add_page has returned Ok, Site.taxonomies
\* equals the terms recomputed from the pages now in the library.
C13_TaxonomiesNeverStale ==
    (pc = "loaded" /\ loc.op \in {"load", "add_page"} /\ result.ok)
        => taxonomies = RecomputedTaxonomies

(***************************************************************************)
(* SpecSection: render_section on a fresh output, for sections with and    *)
(* without a redirect target, pagination and the render flag.              *)
(***************************************************************************)
\* the sections tried: each section file with every front matter
SectionInputs ==
    {[ParsedSection(SectionFiles[i], TRUE, << >>) EXCEPT
         !.render = render, !.redirect_to = redirect_to, !.paginate = paginate] :
        i \in 1..Len(SectionFiles), render \in BOOLEAN,
        redirect_to \in {"", "elsewhere"}, paginate \in 0..MaxPagers}

\* a populated library with the section and two pages
LibraryWith(section) ==
    PopulateSections(
        [pages |-> ("a.md" :> ParsedPage("a.md", "x", FALSE, << >>))
                   @@ ("blog/b.md" :> ParsedPage("blog/b.md", "y", FALSE, << >>)),
         sections |-> (section.file :> section)])

InitSection ==
    /\ build_mode \in BuildModes
    /\ config \in [minify_html : {FALSE}]
    /\ fs = EmptyFs
    /\ site_content = EmptyMap
    /\ pc = "render_section"
    /\ \E section \in SectionInputs, render_pages \in BOOLEAN :
          /\ library = LibraryWith(section)
          /\ loc = [op |-> "render_section", section |-> section.file,
                    render_pages |-> render_pages]
    /\ result = NoResult
    /\ nops = 0
    /\ permalinks = EmptyMap
    /\ taxonomies = << >>
    /\ include_drafts = FALSE
    /\ tree = EmptyMap
    /\ trace = << >>

\* Site::render_section; a template may fail, and then nothing is written
RenderSectionCall ==
    /\ pc = "render_section"
    /\ \E ok \in BOOLEAN :
          LET out == RenderSection(Targets, library, library.sections[loc.section],
                                   loc.render_pages)
          IN  /\ fs' = IF ok THEN out.fs ELSE fs
              /\ site_content' = IF ok THEN out.mem ELSE site_content
              /\ result' = IF ok THEN Ok ELSE Err("render_template")
              /\ pc' = IF ok THEN "returned" ELSE "failed"
    /\ UNCHANGED <<build_mode, config, loc, nops>>
    /\ UNCHANGED siteVars

NextSection == RenderSectionCall

SpecSection == InitSection /\ [][NextSection]_vars

\* ---- claims about render_section ----

SectionDone == loc.op = "render_section" /\ pc = "returned"

\* the section render_section was called with
TheSection == library.sections[loc.section]

\* where the section's own document goes
OwnKey == OutputKey(SectionComponents(TheSection), "index.html")

\* the places of the output, other than those of the pages of the section,
\* that hold a document
SectionPlaces ==
    {k \in DOMAIN Output : Output[k].body \in {"section", "pager", "redirect"}}

\* C14: render_section writes for the section itself exactly one of: nothing
\* (the section is not rendered); only a redirect to the target, at the
\* index path, when a redirect target is declared, paginated or not; the
\* pagers, the first of them at the index path, when it is paginated; the
\* single listing at the index path otherwise.
C14_SectionCases ==
    SectionDone =>
        IF ~TheSection.render THEN SectionPlaces = {}
        ELSE IF TheSection.redirect_to # ""
        THEN /\ SectionPlaces = {OwnKey}
             /\ Output[OwnKey] = RedirectDoc(MakePermalink(TheSection.redirect_to))
        ELSE IF TheSection.paginate > 0
        THEN /\ OwnKey \in SectionPlaces
             /\ Output[OwnKey] = PagerDoc(1)
             /\ \A k \in SectionPlaces : Output[k].body # "section"
             /\ Cardinality({k \in SectionPlaces : Output[k].body = "pager"})
                    = TheSection.paginate
        ELSE /\ SectionPlaces = {OwnKey}
             /\ Output[OwnKey] = SectionDoc(TheSection.file)

C14_Witness ==
    /\ SectionDone
    /\ TheSection.render
    /\ TheSection.redirect_to # ""
    /\ TheSection.paginate > 1
    /\ loc.render_pages
    /\ Output[OwnKey].body = "redirect"

(***************************************************************************)
(* SpecTaxonomy: render_taxonomy on a fresh output, for taxonomies of both *)
(* languages, with and without terms, pagination and feeds.                *)
(***************************************************************************)
\* the lists of terms tried, each term declared by the page a.md
TermLists ==
    {[i \in 1..Len(names) |->
         [slug |-> names[i], permalink |-> <<"http://base", "/", "tags", "/", names[i], "/">>,
          pages |-> {"a.md"}]] :
        names \in {<< >>, <<"go">>, <<"rust">>, <<"go", "rust">>}}

TaxonomyInputs ==
    [slug : {"tags"}, lang : {default_language, "fr"}, paginate : 0..MaxPagers,
     feed : BOOLEAN, items : TermLists]

InitTaxonomy ==
    /\ build_mode \in BuildModes
    /\ config \in [minify_html : {FALSE}]
    /\ fs = EmptyFs
    /\ site_content = EmptyMap
    /\ pc = "render_taxonomy"
    /\ loc = [op |-> "render_taxonomy"]
    /\ result = NoResult
    /\ nops = 0
    /\ library = [pages |-> ("a.md" :> ParsedPage("a.md", "x", FALSE, << >>)),
                  sections |-> EmptyMap]
    /\ permalinks = EmptyMap
    /\ \E taxonomy \in TaxonomyInputs : taxonomies = <<taxonomy>>
    /\ include_drafts = FALSE
    /\ tree = EmptyMap
    /\ trace = << >>

\* Site::render_taxonomy; a template may fail, and then nothing is written
RenderTaxonomyCall ==
    /\ pc = "render_taxonomy"
    /\ \E ok \in BOOLEAN :
          LET out == RenderTaxonomy(Targets, taxonomies[1])
          IN  /\ fs' = IF ok THEN out.fs ELSE fs
              /\ site_content' = IF ok THEN out.mem ELSE site_content
              /\ result' = IF ok THEN Ok ELSE Err("render_template")
              /\ pc' = IF ok THEN "returned" ELSE "failed"
    /\ UNCHANGED <<build_mode, config, loc, nops>>
    /\ UNCHANGED siteVars

NextTaxonomy == RenderTaxonomyCall

SpecTaxonomy == InitTaxonomy /\ [][NextTaxonomy]_vars

\* ---- claims about render_taxonomy ----

TaxonomyDone == loc.op = "render_taxonomy" /\ pc = "returned"

TheTaxonomy == taxonomies[1]

\* [<lang>/]<taxonomy slug>, the language only when it is not the default
TaxonomyPath ==
    IF TheTaxonomy.lang = default_language THEN <<TheTaxonomy.slug>>
    ELSE <<TheTaxonomy.lang, TheTaxonomy.slug>>

TermSlugs == {TheTaxonomy.items[i].slug : i \in 1..Len(TheTaxonomy.items)}

\* the places of the output that hold a document with this body
PlacesOf(body) == {k \in DOMAIN Output : Output[k].body = body}

\* C15: render_taxonomy writes nothing for a taxonomy without terms; for one
\* with terms it writes exactly one listing, at [<lang>/]<slug>/index.html,
\* and for every term either the pagers, the first at
\* [<lang>/]<slug>/<term>/index.html, or exactly one term document there.
C15_TaxonomyDocuments ==
    TaxonomyDone =>
        IF TheTaxonomy.items = << >>
        THEN DOMAIN Output = {} /\ DOMAIN fs.files = {}
        ELSE /\ PlacesOf("taxonomy") = {OutputKey(TaxonomyPath, "index.html")}
             /\ IF TheTaxonomy.paginate > 0
                THEN /\ PlacesOf("term") = {}
                     /\ \A t \in TermSlugs :
                           Output[OutputKey(Append(TaxonomyPath, t), "index.html")]
                               = PagerDoc(1)
                     /\ Cardinality(PlacesOf("pager"))
                            = TheTaxonomy.paginate * Cardinality(TermSlugs)
                ELSE /\ PlacesOf("pager") = {}
                     /\ PlacesOf("term") =
                            {OutputKey(Append(TaxonomyPath, t), "index.html") : t \in TermSlugs}
                     /\ \A t \in TermSlugs :
                           Output[OutputKey(Append(TaxonomyPath, t), "index.html")].of = t

C15_Witness ==
    /\ TaxonomyDone
    /\ TheTaxonomy.lang = "fr"
    /\ Len(TheTaxonomy.items) = 2
    /\ TheTaxonomy.paginate = 0
    /\ Cardinality(PlacesOf("term")) = 2

\* ---- claims about the anchor insertion policy ----

\* the index files of the directory and of the directories above it, the
\* nearest first
AncestorIndexFiles(parent_path, lang) ==
    IF parent_path = "" THEN <<JoinPath("", IndexFileName(lang))>>
    ELSE <<JoinPath(parent_path, IndexFileName(lang)), JoinPath("", IndexFileName(lang))>>

\* the policy of the nearest section above the page, None when there is none
NearestAncestorPolicy(page) ==
    LET found == SelectSeq(AncestorIndexFiles(page.parent, page.lang),
                           LAMBDA f : f \in DOMAIN library.sections)
    IN  IF found = << >> THEN "None"
        ELSE library.sections[found[1]].insert_anchor_links

\* C16 as stated: after a successful load every page was rendered with the
\* anchor insertion policy of the nearest section above its directory, in
\* its language, walking the directories upward; None only when there is no
\* such section.
C16_NearestAncestorPolicy ==
    LoadOk =>
        \A p \in DOMAIN library.pages :
            library.pages[p].insert_anchor = NearestAncestorPolicy(library.pages[p])

\* ---- claims about the phases of load ----

StepsRun == {trace[i].step : i \in 1..Len(trace)}

\* the steps of load after the collision check
PhaseSteps ==
    {"populate_taxonomies", "register_early_global_fns", "populate_sections",
     "render_markdown", "register_tera_global_fns", "check_internal_links",
     "check_external_links"}

\* the place of a step in the order C17 states: sections, taxonomies,
\* markdown, then the template functions and the link checks
StatedPhase(step) ==
    CASE step = "populate_sections" -> 1
      [] step = "populate_taxonomies" -> 2
      [] step = "render_markdown" -> 3
      [] OTHER -> 4

CodePhase(step) ==
    CASE step = "populate_taxonomies" -> 1
      [] step = "register_early_global_fns" -> 2
      [] step = "populate_sections" -> 3
      [] step = "render_markdown" -> 4
      [] step = "register_tera_global_fns" -> 5
      [] step = "check_internal_links" -> 6
      [] step = "check_external_links" -> 7

RenderingSteps ==
    (IF loc.op = "load" THEN {"render_markdown"} ELSE {"add_page", "add_section"})
        \cup {"render_page", "render_section"}

\* the population steps the operation is to have finished before it renders
PopulationSteps ==
    IF loc.op = "add_and_render_section" THEN {"populate_sections"}
    ELSE {"populate_sections", "populate_taxonomies"}

\* C18 as stated: in load, add_and_render_page and add_and_render_section no
\* step that renders the markdown of a document or renders it to the output
\* starts before the population steps of the operation have finished.
C18_PopulationBeforeRendering ==
    loc.op \in {"load", "add_and_render_page", "add_and_render_section"} =>
        \A j \in 1..Len(trace) :
            trace[j].step \in RenderingSteps =>
                \A s \in PopulationSteps :
                    \E i \in 1..(j - 1) : trace[i].step = s /\ trace[i].ok


(***************************************************************************)
(* The lock of the Library (Arc<RwLock<Library>>): load, add_page, the      *)
(* rebuilds and build, one step per lock operation and per call into the   *)
(* Library.  loc.lock is the state of the lock as the thread running the   *)
(* Site leaves it: "free", "read" or "write", or "deadlock" once the       *)
(* thread waits for a lock that its own guard keeps from it.  A guard is   *)
(* dropped at the end of the statement, block or function that took it.    *)
(* The Site is borrowed by the one thread that runs the operation (&mut    *)
(* self, or &self with workers that only read), so no other thread waits   *)
(* for the write lock and a read requested under a read guard is granted.  *)
(***************************************************************************)
\* RwLock::read / RwLock::write requested by the thread that holds `held`
Request(held, kind) ==
    IF held = "free" THEN kind
    ELSE IF held = "read" /\ kind = "read" THEN "read"
    ELSE "deadlock"

\* a guard that outlives its statement
GuardKept(held) == held

\* the guard goes out of scope: the end of the statement of a temporary
\* (lines 266-274, 315-320, 411-414, 430, 577) or of the block or function
\* of a binding (lines 237-242, 275-299, 322-342, 355-360, 369-372, 381-386,
\* 394-397, 420-422, 625-660)
GuardDropped(held) == "free"

\* a guard taken by a call and dropped before the call returns; a guard the
\* caller holds stays held
Scoped(held, kind) ==
    LET g == Request(held, kind)
    IN  IF g = "deadlock" THEN g
        ELSE IF held = "free" THEN GuardDropped(g) ELSE held

\* the thread is not waiting for the lock
NotBlocked == loc.lock # "deadlock"

\* the lock each place of the Site takes on the Library
LockTakenReadOnly(by) == "read"

LockTaken(by) ==
    CASE by \in {"add_section", "add_page", "create_default_index_sections",
                 "populate_sections", "render_markdown"} -> "write"
      [] by \in {"get_section", "populate_taxonomies", "pages", "library",
                 "render_page", "render_section", "find_parent_section_insert_anchor"} -> "read"

\* no document is being added
NoDoc == [file |-> "none"]

\* the trees every file of which parses
ParsedTrees == {t \in TreesOver(SectionFiles \o PageFiles) : \A f \in DOMAIN t : t[f].ok}

\* lines 168-211: load has globbed, made a fresh library and parsed every file
InitLock ==
    /\ build_mode = "Disk"
    /\ config \in SiteConfigs
    /\ fs = EmptyFs
    /\ site_content = EmptyMap
    /\ pc = "lock_sections"
    /\ loc = [op |-> "load", si |-> 1, pi |-> 1, ii |-> 1, lock |-> "free",
              kind |-> "none", doc |-> NoDoc]
    /\ result = NoResult
    /\ nops = 0
    /\ library = EmptyLibrary
    /\ permalinks = EmptyMap
    /\ taxonomies = << >>
    /\ include_drafts \in BOOLEAN
    /\ tree \in ParsedTrees
    /\ trace = << >>

\* lines 377-381 and 348-355: add_section / add_page(.., false) up to the
\* write lock taken
LockAdd(op, kind, doc, held) ==
    /\ permalinks' = Upsert(permalinks, doc.file, doc.permalink)
    /\ loc' = [loc EXCEPT !.lock = Request(held,
                                          LockTaken(IF kind = "section" THEN "add_section"
                                                    ELSE "add_page")),
                          !.op = op, !.kind = kind, !.doc = doc]
    /\ UNCHANGED <<build_mode, config, fs, site_content, result,
                   library, taxonomies, include_drafts, trace>>

\* lines 215-218: one turn of the loop over the sections, up to the lock
LockLoadAddSection ==
    /\ pc = "lock_sections"
    /\ NotBlocked
    /\ loc.si <= Len(SectionEntries)
    /\ LockAdd("load", "section", tree[SectionEntries[loc.si]].doc, loc.lock)
    /\ pc' = "lock_remove"
    /\ UNCHANGED <<nops, tree>>

\* lines 382 and 356: library.remove_section / library.remove_page
LockRemove ==
    /\ pc = "lock_remove"
    /\ NotBlocked
    /\ library' = IF loc.kind = "section" THEN RemoveSection(library, loc.doc.file)
                  ELSE RemovePage(library, loc.doc.file)
    /\ pc' = "lock_insert"
    /\ UNCHANGED <<build_mode, config, fs, site_content, loc, result, nops,
                   permalinks, taxonomies, include_drafts, tree, trace>>

\* lines 383-386 and 357-360: library.insert_section / library.insert_page,
\* then the function returns and its guard is dropped
LockInsert ==
    /\ pc = "lock_insert"
    /\ NotBlocked
    /\ library' = IF loc.kind = "section" THEN InsertSection(library, loc.doc)
                  ELSE InsertPage(library, loc.doc)
    /\ loc' = [loc EXCEPT !.lock = GuardDropped(loc.lock), !.kind = "none", !.doc = NoDoc,
                          !.si = IF loc.op = "load" /\ loc.kind = "section" THEN @ + 1 ELSE @,
                          !.pi = IF loc.op = "load" /\ loc.kind = "page" THEN @ + 1 ELSE @]
    /\ pc' = IF loc.op = "add_page" THEN "loaded"
             ELSE IF loc.op # "load" THEN "lock_populate_sections"
             ELSE IF loc.kind = "section" THEN "lock_sections" ELSE "lock_pages"
    /\ result' = IF loc.op = "add_page" THEN Ok ELSE result
    /\ UNCHANGED <<build_mode, config, fs, site_content, nops,
                   permalinks, taxonomies, include_drafts, tree, trace>>

\* line 220: the sections are in, create_default_index_sections starts
LockLoadSectionsDone ==
    /\ pc = "lock_sections"
    /\ NotBlocked
    /\ loc.si > Len(SectionEntries)
    /\ pc' = "lock_index"
    /\ UNCHANGED <<build_mode, config, fs, site_content, loc, result, nops,
                   library, permalinks, taxonomies, include_drafts, tree, trace>>

\* lines 265-273: the if-let on library.read().get_section(index_path); its
\* guard lives to the end of the if-let
LockIndexGetSection ==
    /\ pc = "lock_index"
    /\ NotBlocked
    /\ loc.ii <= Len(IndexSectionPaths)
    /\ LET ip == IndexSectionPaths[loc.ii]
       IN  IF /\ ContainsSection(library, ip.path)
              /\ config.build_search_index
              /\ ~library.sections[ip.path].in_search_index
           THEN /\ pc' = "failed"
                /\ result' = Err("search_disabled_in_index_section")
                /\ UNCHANGED loc
           ELSE /\ pc' = "lock_index_checked"
                /\ loc' = [loc EXCEPT !.lock = Request(loc.lock, LockTaken("get_section"))]
                /\ UNCHANGED result
    /\ UNCHANGED <<build_mode, config, fs, site_content, nops,
                   library, permalinks, taxonomies, include_drafts, tree, trace>>

\* line 274: the read guard is dropped, the write lock is taken
LockIndexWrite ==
    /\ pc = "lock_index_checked"
    /\ NotBlocked
    /\ loc' = [loc EXCEPT !.lock = Request(GuardDropped(loc.lock),
                                          LockTaken("create_default_index_sections"))]
    /\ pc' = "lock_index_insert"
    /\ UNCHANGED <<build_mode, config, fs, site_content, result, nops,
                   library, permalinks, taxonomies, include_drafts, tree, trace>>

\* lines 276-298: the default section inserted if there is none; the guard
\* is dropped at the end of the turn of the loop
LockIndexInsert ==
    /\ pc = "lock_index_insert"
    /\ NotBlocked
    /\ LET ip == IndexSectionPaths[loc.ii]
       IN  library' = IF ~ContainsSection(library, ip.path)
                      THEN InsertSection(library, SynthIndexSection(ip)) ELSE library
    /\ loc' = [loc EXCEPT !.lock = GuardDropped(loc.lock), !.ii = @ + 1]
    /\ pc' = "lock_index"
    /\ UNCHANGED <<build_mode, config, fs, site_content, result, nops,
                   permalinks, taxonomies, include_drafts, tree, trace>>

\* line 301: create_default_index_sections returns
LockIndexDone ==
    /\ pc = "lock_index"
    /\ NotBlocked
    /\ loc.ii > Len(IndexSectionPaths)
    /\ pc' = "lock_pages"
    /\ UNCHANGED <<build_mode, config, fs, site_content, loc, result, nops,
                   library, permalinks, taxonomies, include_drafts, tree, trace>>

\* lines 226-228: a draft is skipped
LockLoadSkipDraft ==
    /\ pc = "lock_pages"
    /\ NotBlocked
    /\ loc.pi <= Len(PageEntries)
    /\ tree[PageEntries[loc.pi]].doc.draft /\ ~include_drafts
    /\ loc' = [loc EXCEPT !.pi = @ + 1]
    /\ UNCHANGED <<build_mode, config, fs, site_content, pc, result, nops,
                   library, permalinks, taxonomies, include_drafts, tree, trace>>

\* lines 229-233: the anchor looked up (a read guard taken and dropped within
\* the statement), then add_page(p, false) up to the lock
LockLoadAddPage ==
    /\ pc = "lock_pages"
    /\ NotBlocked
    /\ loc.pi <= Len(PageEntries)
    /\ ~(tree[PageEntries[loc.pi]].doc.draft /\ ~include_drafts)
    /\ LockAdd("load", "page", tree[PageEntries[loc.pi]].doc,
               Scoped(loc.lock, LockTaken("find_parent_section_insert_anchor")))
    /\ pc' = "lock_remove"
    /\ UNCHANGED <<nops, tree>>

\* lines 236-242: the collisions checked under a read guard of the block
LockCheckCollisions ==
    /\ pc = "lock_pages"
    /\ NotBlocked
    /\ loc.pi > Len(PageEntries)
    /\ LET r == CollisionResult(CheckForPathCollisions(library))
       IN  /\ pc' = Try(r, "lock_populate_taxonomies").pc
           /\ result' = Try(r, "lock_populate_taxonomies").result
    /\ loc' = [loc EXCEPT !.lock = Scoped(loc.lock, LockTaken("library"))]
    /\ UNCHANGED <<build_mode, config, fs, site_content, nops,
                   library, permalinks, taxonomies, include_drafts, tree, trace>>

\* lines 426-430: populate_taxonomies returns at once without taxonomies in
\* the configuration, else takes the lock for find_taxonomies
LockPopulateTaxonomies ==
    /\ pc = "lock_populate_taxonomies"
    /\ NotBlocked
    /\ IF ~config.has_taxonomies
       THEN /\ pc' = IF loc.op = "load" THEN "lock_populate_sections" ELSE "lock_render"
            /\ UNCHANGED loc
       ELSE /\ pc' = "lock_find_taxonomies"
            /\ loc' = [loc EXCEPT !.lock = Request(loc.lock, LockTaken("populate_taxonomies"))]
    /\ UNCHANGED <<build_mode, config, fs, site_content, result, nops,
                   library, permalinks, taxonomies, include_drafts, tree, trace>>

\* line 430: find_taxonomies, its result assigned to Site.taxonomies, the
\* guard dropped at the end of the statement
LockFindTaxonomies ==
    /\ pc = "lock_find_taxonomies"
    /\ NotBlocked
    /\ \E found \in BOOLEAN :
          /\ taxonomies' = IF found THEN AssignTaxonomies(taxonomies, FindTaxonomies(library))
                           ELSE taxonomies
          /\ pc' = IF ~found THEN "failed"
                   ELSE IF loc.op = "load" THEN "lock_populate_sections" ELSE "lock_render"
          /\ result' = IF found THEN result ELSE Err("find_taxonomies")
    /\ loc' = [loc EXCEPT !.lock = GuardDropped(loc.lock)]
    /\ UNCHANGED <<build_mode, config, fs, site_content, nops,
                   library, permalinks, include_drafts, tree, trace>>

\* line 420: populate_sections takes the lock
LockPopulateSections ==
    /\ pc = "lock_populate_sections"
    /\ NotBlocked
    /\ loc' = [loc EXCEPT !.lock = Request(loc.lock, LockTaken("populate_sections"))]
    /\ pc' = "lock_library_populate_sections"
    /\ UNCHANGED <<build_mode, config, fs, site_content, result, nops,
                   library, permalinks, taxonomies, include_drafts, tree, trace>>

\* lines 421-422: library.populate_sections, then the guard is dropped
LockLibraryPopulateSections ==
    /\ pc = "lock_library_populate_sections"
    /\ NotBlocked
    /\ library' = PopulateSections(library)
    /\ loc' = [loc EXCEPT !.lock = GuardDropped(loc.lock)]
    /\ pc' = CASE loc.op = "load" -> "lock_render_markdown"
               [] loc.op = "add_and_render_page" -> "lock_populate_taxonomies"
               [] loc.op = "add_and_render_section" -> "lock_render"
    /\ UNCHANGED <<build_mode, config, fs, site_content, result, nops,
                   permalinks, taxonomies, include_drafts, tree, trace>>

\* lines 314-320: render_markdown collects the anchors of the pages under a
\* read guard that lives to the end of the loop
LockRenderMarkdownPages ==
    /\ pc = "lock_render_markdown"
    /\ NotBlocked
    /\ loc' = [loc EXCEPT !.lock = Request(loc.lock, LockTaken("pages"))]
    /\ pc' = "lock_render_markdown_anchors"
    /\ UNCHANGED <<build_mode, config, fs, site_content, result, nops,
                   library, permalinks, taxonomies, include_drafts, tree, trace>>

\* line 322: the read guard is dropped, the write lock is taken
LockRenderMarkdownWrite ==
    /\ pc = "lock_render_markdown_anchors"
    /\ NotBlocked
    /\ loc' = [loc EXCEPT !.lock = Request(GuardDropped(loc.lock), LockTaken("render_markdown"))]
    /\ pc' = "lock_render_markdown_run"
    /\ UNCHANGED <<build_mode, config, fs, site_content, result, nops,
                   library, permalinks, taxonomies, include_drafts, tree, trace>>

\* lines 323-342: every page and section rendered, then the guard is dropped
LockRenderMarkdownRun ==
    /\ pc = "lock_render_markdown_run"
    /\ NotBlocked
    /\ \E md_ok \in BOOLEAN :
          /\ library' = IF md_ok THEN RenderMarkdown(library) ELSE library
          /\ pc' = IF md_ok THEN "loaded" ELSE "failed"
          /\ result' = IF md_ok THEN Ok ELSE Err("render_markdown")
    /\ loc' = [loc EXCEPT !.lock = GuardDropped(loc.lock)]
    /\ UNCHANGED <<build_mode, config, fs, site_content, nops,
                   permalinks, taxonomies, include_drafts, tree, trace>>

\* Site::add_page(page, false) called on the loaded Site with a page the
\* caller parsed, up to the lock
LockAddPageCall ==
    /\ pc = "loaded"
    /\ NotBlocked
    /\ nops < MaxOps
    /\ nops' = nops + 1
    /\ \E i \in 1..Len(PageFiles) : \E parsed \in PageOutcomes(PageFiles[i]) :
          /\ parsed.ok
          /\ tree' = Upsert(tree, PageFiles[i], parsed)
          /\ LockAdd("add_page", "page", parsed.doc, loc.lock)
    /\ pc' = "lock_remove"

\* lines 365-366 and 348-355: add_and_render_page parses the page, then
\* add_page(page, true): the permalink, the anchor of the parent looked up
\* under a guard of its own (lines 411-414), the markdown rendered, and on
\* success the write lock requested
LockAddAndRenderPageCall ==
    /\ pc = "loaded"
    /\ NotBlocked
    /\ nops < MaxOps
    /\ nops' = nops + 1
    /\ \E i \in 1..Len(PageFiles) : \E parsed \in PageOutcomes(PageFiles[i]) : \E md_ok \in BOOLEAN :
          /\ parsed.ok
          /\ tree' = Upsert(tree, PageFiles[i], parsed)
          /\ LET held == Scoped(loc.lock, LockTaken("find_parent_section_insert_anchor"))
                 doc == [parsed.doc EXCEPT
                             !.rendered = TRUE,
                             !.insert_anchor = FindParentSectionInsertAnchor(
                                                   library, parsed.doc.parent, parsed.doc.lang)]
             IN  IF md_ok
                 THEN /\ LockAdd("add_and_render_page", "page", doc, held)
                      /\ pc' = "lock_remove"
                 ELSE /\ permalinks' = Upsert(permalinks, doc.file, doc.permalink)
                      /\ loc' = [loc EXCEPT !.lock = held, !.op = "add_and_render_page"]
                      /\ pc' = "failed"
                      /\ result' = Err("render_markdown")
                      /\ UNCHANGED <<build_mode, config, fs, site_content,
                                     library, taxonomies, include_drafts, trace>>

\* lines 391-392 and 377-381: add_and_render_section parses the section, then
\* add_section(section, true): the permalink, the markdown rendered, and on
\* success the write lock requested
LockAddAndRenderSectionCall ==
    /\ pc = "loaded"
    /\ NotBlocked
    /\ nops < MaxOps
    /\ nops' = nops + 1
    /\ \E i \in 1..Len(SectionFiles) : \E parsed \in SectionOutcomes(SectionFiles[i]) : \E md_ok \in BOOLEAN :
          /\ parsed.ok
          /\ tree' = Upsert(tree, SectionFiles[i], parsed)
          /\ LET doc == [parsed.doc EXCEPT !.rendered = TRUE]
             IN  IF md_ok
                 THEN /\ LockAdd("add_and_render_section", "section", doc, loc.lock)
                      /\ pc' = "lock_remove"
                 ELSE /\ permalinks' = Upsert(permalinks, doc.file, doc.permalink)
                      /\ loc' = [loc EXCEPT !.op = "add_and_render_section"]
                      /\ pc' = "failed"
                      /\ result' = Err("render_markdown")
                      /\ UNCHANGED <<build_mode, config, fs, site_content,
                                     library, taxonomies, include_drafts, trace>>

\* lines 369-370 and 394-395: the rebuild binds a read guard to look the
\* document up
LockRender ==
    /\ pc = "lock_render"
    /\ NotBlocked
    /\ loc' = [loc EXCEPT !.lock = Request(loc.lock, LockTaken("library"))]
    /\ pc' = "lock_render_output"
    /\ UNCHANGED <<build_mode, config, fs, site_content, result, nops,
                   library, permalinks, taxonomies, include_drafts, tree, trace>>

\* lines 371 and 396: render_page / render_section run under the guard of the
\* rebuild and take guards of their own (lines 577, 939, 967, 990, 994); the
\* rebuild returns what they return and its guard is dropped.  What they
\* write is the subject of RenderPage and RenderSection.
LockRenderOutput ==
    /\ pc = "lock_render_output"
    /\ NotBlocked
    /\ \E ok \in BOOLEAN :
          /\ pc' = IF ok THEN "loaded" ELSE "failed"
          /\ result' = IF ok THEN Ok ELSE Err("render")
    /\ LET g == Scoped(loc.lock, LockTaken(IF loc.op = "add_and_render_page"
                                            THEN "render_page" ELSE "render_section"))
       IN  loc' = [loc EXCEPT !.lock = IF g = "deadlock" THEN g ELSE GuardDropped(g)]
    /\ UNCHANGED <<build_mode, config, fs, site_content, nops,
                   library, permalinks, taxonomies, include_drafts, tree, trace>>

\* lines 598-623: build up to the sitemap; render_aliases, render_orphan_pages
\* and render_sitemap each bind a read guard (lines 723, 1016, 833) and
\* render_sections holds one (line 1005), under which render_page and
\* render_section take theirs; each guard is dropped when its function
\* returns.  What they write is the subject of BuildStep.
LockBuildRender ==
    /\ pc = "loaded"
    /\ NotBlocked
    /\ nops < MaxOps
    /\ nops' = nops + 1
    /\ \E ok \in BOOLEAN :
          /\ pc' = IF ok THEN "lock_build_library" ELSE "failed"
          /\ result' = IF ok THEN result ELSE Err("build")
    /\ LET g == Scoped(Request(loc.lock, LockTaken("library")), LockTaken("render_page"))
       IN  loc' = [loc EXCEPT !.op = "build",
                              !.lock = IF g = "deadlock" THEN g ELSE GuardDropped(g)]
    /\ UNCHANGED <<build_mode, config, fs, site_content,
                   library, permalinks, taxonomies, include_drafts, tree, trace>>

\* line 625: build binds a read guard for the rest of the function
LockBuildLibrary ==
    /\ pc = "lock_build_library"
    /\ NotBlocked
    /\ loc' = [loc EXCEPT !.lock = Request(loc.lock, LockTaken("library"))]
    /\ pc' = "lock_build_feeds"
    /\ UNCHANGED <<build_mode, config, fs, site_content, result, nops,
                   library, permalinks, taxonomies, include_drafts, tree, trace>>

\* lines 626-660: the feeds, the 404 page, robots.txt, the taxonomies (guards
\* of their own at lines 782 and 786), the images and the static files; build
\* returns and the guard of line 625 is dropped
LockBuildFeeds ==
    /\ pc = "lock_build_feeds"
    /\ NotBlocked
    /\ \E ok \in BOOLEAN :
          /\ pc' = IF ok THEN "loaded" ELSE "failed"
          /\ result' = IF ok THEN Ok ELSE Err("build")
    /\ LET g == Scoped(loc.lock, LockTaken("library"))
       IN  loc' = [loc EXCEPT !.lock = IF g = "deadlock" THEN g ELSE GuardDropped(g)]
    /\ UNCHANGED <<build_mode, config, fs, site_content, nops,
                   library, permalinks, taxonomies, include_drafts, tree, trace>>

NextLock ==
    \/ LockLoadAddSection
    \/ LockRemove
    \/ LockInsert
    \/ LockLoadSectionsDone
    \/ LockIndexGetSection
    \/ LockIndexWrite
    \/ LockIndexInsert
    \/ LockIndexDone
    \/ LockLoadSkipDraft
    \/ LockLoadAddPage
    \/ LockCheckCollisions
    \/ LockPopulateTaxonomies
    \/ LockFindTaxonomies
    \/ LockPopulateSections
    \/ LockLibraryPopulateSections
    \/ LockRenderMarkdownPages
    \/ LockRenderMarkdownWrite
    \/ LockRenderMarkdownRun
    \/ LockAddPageCall
    \/ LockAddAndRenderPageCall
    \/ LockAddAndRenderSectionCall
    \/ LockRender
    \/ LockRenderOutput
    \/ LockBuildRender
    \/ LockBuildLibrary
    \/ LockBuildFeeds

SpecLock == InitLock /\ [][NextLock]_vars


\* the positions of load's insertion of the parsed documents (lines 215-234)
BulkInsertPositions ==
    {"lock_sections", "lock_remove", "lock_insert", "lock_index", "lock_index_checked",
     "lock_index_insert", "lock_pages"}

\* load is between two steps of its bulk insert: a document is in the
\* Library and another one is still to be inserted
InBulkInsert ==
    /\ loc.op = "load"
    /\ pc \in BulkInsertPositions
    /\ DocFiles(library) # {}
    /\ \/ pc # "lock_pages"
       \/ \E i \in loc.pi..Len(PageEntries) :
             ~(tree[PageEntries[i]].doc.draft /\ ~include_drafts)

\* a single-document replace is between its remove and its insert
InReplace == pc = "lock_insert"

\* section population, taxonomy population are under way
InPopulateSections == pc = "lock_library_populate_sections"
InPopulateTaxonomies == pc = "lock_find_taxonomies"

\* C19 (as stated): while a mutating phase is under way (the bulk insert of
\* load, a single-document replace, section population, taxonomy
\* population), the Library write lock is held.
C19_WriteLockWholePhase ==
    (InBulkInsert \/ InReplace \/ InPopulateSections \/ InPopulateTaxonomies)
        => loc.lock = "write"

\* where each phase holds which lock
LockDiscipline ==
    /\ (InReplace \/ InPopulateSections \/ pc \in {"lock_remove", "lock_index_insert"})
           => loc.lock = "write"
    /\ InPopulateTaxonomies => loc.lock = "read"
    /\ pc \in {"lock_sections", "lock_index", "lock_pages"} => loc.lock = "free"

\* C19 (amended): a single-document replace (remove, then insert) and section
\* population each hold the Library write lock from their first to their last
\* step, and the Library never changes without the write lock held; the bulk
\* insert of load takes and drops the write lock once per inserted document,
\* so the lock is free between two documents; taxonomy population holds only
\* a read lock.
C19_WriteLockPerDocument ==
    /\ []LockDiscipline
    /\ [][(library' # library) => (loc.lock = "write")]_vars

\* load is between two documents of its bulk insert, sections and a page
\* are in the Library, and the lock is free
C19_Witness ==
    /\ InBulkInsert
    /\ pc = "lock_pages"
    /\ DOMAIN library.pages # {}
    /\ DOMAIN library.sections # {}
    /\ loc.lock = "free"

\* ---- claims about what rendering leaves alone ----

\* the step taken is an output rendering of a rebuild (render_page at lines
\* 369-371, render_section at lines 394-396)
OutputRenderingStep ==
    /\ Len(trace') = Len(trace) + 1
    /\ trace'[Len(trace')].step \in {"render_page", "render_section"}

\* C20: rendering never mutates the Library: every step of build() (clean,
\* sass, search index, render_aliases, render_sections, render_orphan_pages,
\* render_sitemap, the feeds, 404, robots, render_taxonomies, images, static
\* files) and the output rendering of a rebuild leave the Library, the
\* permalink index and Site.taxonomies unchanged, whether the step succeeds
\* or fails.
C20_RenderingLeavesLibrary ==
    [][(loc'.op = "build" \/ OutputRenderingStep)
           => UNCHANGED <<library, permalinks, taxonomies>>]_vars

\* a build that wrote its sections and then failed, over a Library with
\* documents and terms
C20_Witness ==
    /\ loc.op = "build"
    /\ pc = "failed"
    /\ \E i \in 1..Len(trace) : trace[i].step = "render_sections" /\ trace[i].ok
    /\ DOMAIN library.pages # {}
    /\ taxonomies # << >>


\* ---- claims about the units of work of a build ----

\* the units of work of a build that write the output of the page p: the
\* render of each section that lists it (lines 963-969), the orphan pass
\* (lines 1014-1019)
UnitsWriting(p) ==
    {s \in DOMAIN library.sections : p \in library.sections[s].pages}
    \cup (IF p \in GetAllOrphanPages(library) THEN {"orphan pass"} ELSE {})

PageKey(p) == OutputKey(PageComponents(library.pages[p]), "index.html")

\* C21: in a build, every page of the Library is written by exactly one
\* unit of work, the render of the one section that lists it or the orphan
\* pass; no two pages share an output location; and after a build that
\* returned Ok the output holds every page at its location.
C21_OneWriterPerPage ==
    loc.op = "build" =>
        /\ \A p \in DOMAIN library.pages : Cardinality(UnitsWriting(p)) = 1
        /\ \A p, q \in DOMAIN library.pages : p # q => PageKey(p) # PageKey(q)
        /\ BuildReturned =>
              \A p \in DOMAIN library.pages :
                  /\ PageKey(p) \in DOMAIN Output
                  /\ Output[PageKey(p)].body = "page"
                  /\ Output[PageKey(p)].of = p

\* a build returned over a Library with a page a section lists and a page
\* no section lists
C21_Witness ==
    /\ BuildReturned
    /\ \E p \in DOMAIN library.pages : "orphan pass" \in UnitsWriting(p)
    /\ \E p \in DOMAIN library.pages : "orphan pass" \notin UnitsWriting(p)


(***************************************************************************)
(* A Site that is loaded and built again: a page file is deleted from the  *)
(* content directory after a build in Memory mode, then load() and build() *)
(* are called on the same Site.                                            *)
(***************************************************************************)
\* the caller of a Site that served a build deletes a page file and loads
\* the Site again (load makes a fresh Library at lines 179-183)
LoadAgain ==
    /\ BuildReturned
    /\ build_mode = "Memory"
    /\ nops = MaxOps
    /\ \E i \in 1..Len(PageFiles) :
          /\ PageFiles[i] \in DOMAIN tree
          /\ tree' = Without(tree, PageFiles[i])
    /\ pc' = "new"
    /\ nops' = 0
    /\ loc' = [op |-> "none"]
    /\ result' = NoResult
    /\ trace' = << >>
    /\ UNCHANGED <<build_mode, config, fs, site_content,
                   library, permalinks, taxonomies, include_drafts>>

NextReload == Next \/ LoadAgain

SpecReload == Init /\ [][NextReload]_vars

\* C22: in Memory mode, after a build has returned, the in-memory output
\* map holds no entry of a document the latest build did not produce: every
\* page document of the map is the document of a page of the Library, at
\* that page's location.
C22_OnlyLatestBuildKeys ==
    (BuildReturned /\ build_mode = "Memory") =>
        \A k \in DOMAIN site_content :
            site_content[k].body = "page" =>
                /\ site_content[k].of \in DOMAIN library.pages
                /\ k = PageKey(site_content[k].of)


\* ---- more claims about write_content ----

\* the step is a call of write_content
WriteContentCalled == loc'.op = "write_content" /\ nops' = nops + 1

\* the call is to minify its content: minification is requested and the
\* file name ends with "html"
MinifyRequested ==
    config.minify_html /\ loc'.filename \in {"index.html", "404.html"}

\* C23: a write_content call that is to minify malformed markup returns an
\* error, writes no file and changes no key of the in-memory map; a call
\* that is not to minify (the file name does not end with "html", or
\* minification is off) and returns Ok stores its content unchanged.
C23_MinifyFailureWritesNothing ==
    [][WriteContentCalled =>
          /\ (MinifyRequested /\ loc'.content.body = "bad_html") =>
                 /\ ~result'.ok
                 /\ fs'.files = fs.files
                 /\ site_content' = site_content
          /\ (~MinifyRequested /\ result'.ok) =>
                 /\ OutputKey(loc'.components, loc'.filename) \in DOMAIN Output'
                 /\ Output'[OutputKey(loc'.components, loc'.filename)] = loc'.content]_vars

\* a second write_content call, in Memory mode, failed to minify index.html
C23_Witness ==
    /\ loc.op = "write_content"
    /\ config.minify_html
    /\ loc.filename = "index.html"
    /\ loc.content.body = "bad_html"
    /\ result.err = "minify"
    /\ build_mode = "Memory"
    /\ site_content # EmptyMap

\* the directories of the path p and of every path above it
DirectoriesTo(p) == {SubSeq(p, 1, k) : k \in 0..Len(p)}

\* C24: a write_content call that gets past the output directory creates
\* the directory of every component exactly when the build mode is Disk or
\* create_dirs is true; in Memory mode with create_dirs false it creates no
\* directory of a component; and a call that returns Ok returns the output
\* path joined with the components.
C24_DirectoriesIffDiskOrFlag ==
    [][(WriteContentCalled /\ result'.err # "io") =>
          LET joined == OsPath(loc'.components)
          IN  /\ (build_mode = "Disk" \/ loc'.create_dirs) =>
                     DirectoriesTo(joined) \subseteq fs'.dirs
              /\ ~(build_mode = "Disk" \/ loc'.create_dirs) =>
                     fs'.dirs \subseteq fs.dirs \cup {<< >>}
              /\ result'.ok => loc'.path = joined]_vars

\* a call in Memory mode with create_dirs made the directories of two
\* components, and another one without the flag made none
C24_Witness ==
    /\ loc.op = "write_content"
    /\ build_mode = "Memory"
    /\ ~loc.create_dirs
    /\ result.ok
    /\ loc.components = <<"my post">>
    /\ <<"blog", "post-1">> \in fs.dirs
    /\ <<"my post">> \notin fs.dirs

\* C25: a write_content call that returns Ok materializes its content in
\* exactly one target: in Disk mode in the file of the output path, the
\* components and the file name, the in-memory map left as it was; in Memory
\* mode under exactly one key of the map, no file written.
C25_ExactlyOneTarget ==
    [][(WriteContentCalled /\ result'.ok) =>
          IF build_mode = "Disk"
          THEN /\ site_content' = site_content
               /\ DOMAIN fs'.files =
                      DOMAIN fs.files \cup {Append(OsPath(loc'.components), loc'.filename)}
               /\ \A k \in DOMAIN fs.files :
                      k # Append(OsPath(loc'.components), loc'.filename)
                          => fs'.files[k] = fs.files[k]
          ELSE /\ fs'.files = fs.files
               /\ \E k \in DOMAIN site_content' :
                      /\ DOMAIN site_content' = DOMAIN site_content \cup {k}
                      /\ \A j \in DOMAIN site_content : j # k => site_content'[j] = site_content[j]
                      /\ site_content'[k].body = loc'.content.body]_vars

\* a call in Memory mode returned Ok over a map that held a document
C25_Witness ==
    /\ loc.op = "write_content" /\ result.ok /\ build_mode = "Memory"
    /\ Cardinality(DOMAIN site_content) = 2


\* ---- claims about add_page and add_section ----

\* the step taken is a call of add_page / add_section that returned Ok
AddedOk(name) ==
    /\ Len(trace') = Len(trace) + 1
    /\ trace'[Len(trace')].step = name
    /\ trace'[Len(trace')].ok

\* the source path of the document the call was given
AddedPageFile == IF loc.op = "load" THEN PageEntries[loc.pi] ELSE loc.path
AddedSectionFile == IF loc.op = "load" THEN SectionEntries[loc.si] ELSE loc.path

\* C26: add_page and add_section insert or replace by source path: after a
\* call that returned Ok the Library holds the document given (as its
\* markdown rendering left it) under its path, the paths held are the ones
\* held before and this one, every other document is unchanged, and the
\* permalink index maps the path to the permalink of the document given,
\* its other entries unchanged.
C26_InsertOrReplaceByPath ==
    [][/\ AddedOk("add_page") =>
             LET f == AddedPageFile
                 p == tree[f].doc
             IN  /\ DOMAIN library'.pages = DOMAIN library.pages \cup {f}
                 /\ [library'.pages[f] EXCEPT !.rendered = p.rendered,
                                              !.insert_anchor = p.insert_anchor] = p
                 /\ \A g \in DOMAIN library.pages \ {f} :
                        library'.pages[g] = library.pages[g]
                 /\ library'.sections = library.sections
                 /\ permalinks' = Upsert(permalinks, f, p.permalink)
       /\ AddedOk("add_section") =>
             LET f == AddedSectionFile
                 x == tree[f].doc
             IN  /\ DOMAIN library'.sections = DOMAIN library.sections \cup {f}
                 /\ [library'.sections[f] EXCEPT !.rendered = x.rendered] = x
                 /\ \A g \in DOMAIN library.sections \ {f} :
                        library'.sections[g] = library.sections[g]
                 /\ library'.pages = library.pages
                 /\ permalinks' = Upsert(permalinks, f, x.permalink)]_vars

\* add_page has replaced a page the loaded Library held (a section lists it);
\* the version given has the path blog
C26_Witness ==
    /\ loc.op = "add_and_render_page"
    /\ pc = "arp_populate_sections"
    /\ \E s \in DOMAIN library.sections : loc.path \in library.sections[s].pages
    /\ library.pages[loc.path].path = "blog"
    /\ permalinks[loc.path] = MakePermalink("blog")


\* ---- claims about create_default_index_sections ----

\* load has just run create_default_index_sections
IndexSectionsRun ==
    /\ loc.op = "load"
    /\ trace # << >>
    /\ trace[Len(trace)].step = "create_default_index_sections"

\* the explicit root section at this path has the search index disabled
SearchDisabledAt(path) ==
    path \in DOMAIN library.sections /\ ~library.sections[path].in_search_index

\* C27 (as stated): create_default_index_sections fails exactly when search
\* is enabled in the configuration and the explicit root section of the
\* default language (_index.md) has the search index disabled; a root
\* section of another language with the search index disabled causes no
\* error.
C27_OnlyDefaultRootChecked ==
    IndexSectionsRun =>
        (~trace[Len(trace)].ok <=>
             (config.build_search_index /\ SearchDisabledAt("_index.md")))

\* C27 (amended): create_default_index_sections fails exactly when search is
\* enabled in the configuration and the explicit root section of some
\* language, the default one or any other, has the search index disabled.
C27_EveryRootChecked ==
    IndexSectionsRun =>
        (~trace[Len(trace)].ok <=>
             (config.build_search_index /\
              \E i \in 1..Len(IndexSectionPaths) :
                  SearchDisabledAt(IndexSectionPaths[i].path)))

\* create_default_index_sections failed on the root section of a language
\* other than the default one, the default root being searchable
C27_Witness ==
    /\ IndexSectionsRun
    /\ ~trace[Len(trace)].ok
    /\ ~SearchDisabledAt("_index.md")
    /\ SearchDisabledAt("_index.fr.md")


\* C28: for a taxonomy that declares feed generation, render_taxonomy writes
\* the feed of each term under the path of the term's listing document,
\* [<lang>/]<taxonomy slug>/<term slug>/, and nowhere else.
C28_TermFeedUnderTermPath ==
    (TaxonomyDone /\ TheTaxonomy.feed) =>
        PlacesOf("feed") = {OutputKey(Append(TaxonomyPath, t), "atom.xml") : t \in TermSlugs}


\* ---- claims about the guards of the Library lock ----

\* the thread runs every step its operation has left
SpecLockFair == SpecLock /\ WF_vars(NextLock)

\* the operation has returned to its caller
Returned == pc \in {"loaded", "failed"}

\* C29: no Site operation requests the Library write lock while its own
\* thread still holds a read guard (the thread never waits for a lock that
\* its own guard keeps from it), every operation has released every guard of
\* the Library when it returns, with Ok or with Err, and every operation that
\* was started returns.
C29_GuardsReleased ==
    /\ [](loc.lock # "deadlock")
    /\ [](Returned => loc.lock = "free")
    /\ []<>Returned

\* create_default_index_sections found the index section under its read
\* guard, passed the search check, and now holds the write lock
C29_Witness ==
    /\ pc = "lock_index_insert"
    /\ loc.lock = "write"
    /\ ContainsSection(library, IndexSectionPaths[loc.ii].path)


\* ---- claims about the permalink index ----

\* C30: after load, add_page and add_section, the keys of Site.permalinks are
\* the relative source paths of the pages and sections in the Library, and
\* each entry holds the permalink of its document.
C30_PermalinksMatchLibrary ==
    (LoadReturned /\ pc = "loaded") =>
        /\ DOMAIN permalinks = DocFiles(library)
        /\ \A f \in DOMAIN permalinks : permalinks[f] = PermalinkOf(library, f)


\* ---- a build after a rebuild ----

\* lines 148-153: Site::reload_templates reloads the templates and calls
\* build() on the Site as the rebuilds left it; taken once the bounded
\* operations are used up, after a rebuild
ReloadTemplates ==
    /\ pc \in {"returned", "failed"}
    /\ loc.op \in {"add_and_render_page", "add_and_render_section"}
    /\ nops = MaxOps
    /\ \E reloaded \in BOOLEAN :
          IF reloaded
          THEN /\ loc' = [op |-> "build"]
               /\ pc' = BuildStepFrom(1)
               /\ result' = NoResult
          ELSE /\ loc' = [op |-> "reload_templates"]
               /\ pc' = "failed"
               /\ result' = Err("full_reload")
    /\ trace' = << >>
    /\ UNCHANGED <<build_mode, config, fs, site_content, nops,
                   library, permalinks, taxonomies, include_drafts, tree>>

NextServe == Next \/ ReloadTemplates

SpecServe == Init /\ [][NextServe]_vars


\* ---- claims about a failed add ----

\* the step taken is a call of add_page / add_section that returned Err
AddFailed(name) ==
    /\ Len(trace') = Len(trace) + 1
    /\ trace'[Len(trace')].step = name
    /\ ~trace'[Len(trace')].ok

\* C31: when add_page or add_section with render_md = true fails because the
\* markdown rendering of the document returns an error, the Site is as it
\* was: neither the Library nor the permalink index has changed.
C31_FailedAddLeavesSite ==
    [][(AddFailed("add_page") \/ AddFailed("add_section")) =>
           /\ library' = library
           /\ permalinks' = permalinks]_vars

=============================================================================
